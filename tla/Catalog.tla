------------------------------- MODULE Catalog -------------------------------
(***************************************************************************)
(* The catalog of rooms and channels: apps/api/src/rooms/rooms.service.ts  *)
(* and apps/api/src/channels/channels.service.ts, with who owns what, who  *)
(* has which role in it, and which room stands where in which channel.     *)
(*                                                                         *)
(* The two services keep memberships in the same way, and share the        *)
(* operators here.  A request is taken up with what it read when it passed *)
(* its checks, and writes, one transaction at a time, on what it read: a   *)
(* request that is refused changes nothing and is left out, as are names,  *)
(* visibility, transport, logs and the update of them.  A row that was     *)
(* removed stays, with deletedAt, and its members stay too.                *)
(***************************************************************************)
EXTENDS Naturals, FiniteSets, Functions

CONSTANTS
    Rooms, Channels,     \* by slug
    Users,
    Admins,
    CHANNEL_ROOM_LIMIT,
    Calls,               \* requests that may be under way at once
    None

ASSUME CatalogAssumption ==
    /\ Admins \subseteq Users
    /\ CHANNEL_ROOM_LIMIT \in Nat \ {0}
    /\ Rooms \cap Channels = {}
    /\ IsFiniteSet(Rooms)

VARIABLES
    spaces,    \* the row of each room and channel, with its members
    place,     \* channelId and position of each room
    calls      \* what each request under way will write

catalogVars == <<spaces, place, calls>>

Spaces == Rooms \cup Channels
Roles == {"MEMBER", "MOD", "OWNER"}

Nothing ==
    [exists |-> FALSE, live |-> FALSE, owner |-> None, roles |-> [u \in Users |-> None]]

Loose == [channel |-> None, position |-> 0]

CatalogInit ==
    /\ spaces = [s \in Spaces |-> Nothing]
    /\ place = [r \in Rooms |-> Loose]
    /\ calls = [k \in Calls |-> None]

-----------------------------------------------------------------------------
(* Taking a request up: findBySlug, assertCanManage and the checks.        *)

Rank(role) ==
    CASE role = "OWNER" -> 3 [] role = "MOD" -> 2 [] role = "MEMBER" -> 1 [] role = None -> 0

\* assertCanManage, on a row that findBySlug found.
MayManage(u, s, minimum) ==
    /\ spaces[s].live
    /\ \/ u \in Admins
       \/ spaces[s].owner = u
       \/ Rank(spaces[s].roles[u]) >= Rank(minimum)

Request(what, on, user) ==
    [what |-> what, on |-> on, user |-> user, role |-> None, saw |-> None,
     room |-> None, count |-> 0, order |-> <<>>]

Takes(k, e) ==
    /\ calls[k] = None
    /\ calls' = [calls EXCEPT ![k] = e]
    /\ UNCHANGED <<spaces, place>>

\* create, of a room: one that nobody owns is adopted.
CreateRoom(k, r, u) ==
    IF ~spaces[r].live THEN Takes(k, Request("create", r, u))
    ELSE spaces[r].owner = None /\ Takes(k, Request("adopt", r, u))

CreateChannel(k, c, u) ==
    /\ ~spaces[c].live
    /\ Takes(k, Request("create", c, u))

\* ensureRoom, for a sound.
EnsureRoom(k, r) ==
    /\ ~spaces[r].live
    /\ Takes(k, Request("ensure", r, None))

RemoveSpace(k, s, u) ==
    /\ MayManage(u, s, "OWNER")
    /\ Takes(k, Request("remove", s, None))

SetMemberRole(k, s, u, target, role) ==
    /\ MayManage(u, s, "OWNER")
    /\ target = spaces[s].owner => role = "OWNER"
    /\ Takes(k, [Request("setRole", s, target) EXCEPT !.role = role, !.saw = spaces[s].owner])

\* Mutant of Removable: whoever leaves of their own accord is not looked at.
RemovableBySelf(s, u, target) == u = target \/ target # spaces[s].owner

\* The owner stays until the room or channel is someone else's.
Removable(s, u, target) == target # spaces[s].owner

RemoveMember(k, s, u, target) ==
    /\ spaces[s].live
    /\ u # target => MayManage(u, s, "MOD")
    /\ Removable(s, u, target)
    /\ Takes(k, [Request("removeMember", s, target) EXCEPT !.saw = spaces[s].owner])

RoomsOf(c) == {r \in Rooms : place[r].channel = c /\ spaces[r].live}

AddRoom(k, c, u, r) ==
    /\ MayManage(u, c, "MOD")
    /\ spaces[r].live
    /\ place[r].channel = None
    /\ Takes(k, [Request("addRoom", c, None) EXCEPT !.room = r])

\* addRoom goes on: the rooms of the channel are counted.
CountRooms(k) ==
    /\ calls[k] # None /\ calls[k].what = "addRoom"
    /\ LET count == Cardinality(RoomsOf(calls[k].on))
       IN  calls' = [calls EXCEPT ![k] =
               IF count >= CHANNEL_ROOM_LIMIT THEN None
               ELSE [@ EXCEPT !.what = "putRoom", !.count = count]]
    /\ UNCHANGED <<spaces, place>>

RemoveRoom(k, c, u, r) ==
    /\ MayManage(u, c, "MOD")
    /\ r \in RoomsOf(c)
    /\ Takes(k, [Request("takeRoom", c, None) EXCEPT !.room = r])

\* The list is as long as the channel has rooms, and names no other; one named twice
\* takes the last of its places, and one that is left out keeps the place it had.
ReorderRooms(k, c, u) ==
    /\ MayManage(u, c, "MOD")
    /\ \E list \in [0 .. Cardinality(RoomsOf(c)) - 1 -> RoomsOf(c)] :
       \E order \in [Range(list) -> DOMAIN list] :
           /\ \A r \in Range(list) : list[order[r]] = r
           /\ \A i \in DOMAIN list : order[list[i]] >= i
           /\ Takes(k, [Request("reorder", c, None) EXCEPT !.order = order])

-----------------------------------------------------------------------------
(* Writing.                                                                *)

\* One request ends, with what it leaves of the rows.
Writes(k, what) ==
    /\ calls[k] # None
    /\ calls[k].what = what
    /\ calls' = [calls EXCEPT ![k] = None]

\* The upsert of create, in one transaction with the membership of the owner.
Created(s, u) ==
    [spaces[s] EXCEPT !.exists = TRUE, !.live = TRUE, !.owner = u, !.roles[u] = "OWNER"]

WritesCreate(k) ==
    /\ Writes(k, "create")
    /\ spaces' = [spaces EXCEPT ![calls[k].on] = Created(calls[k].on, calls[k].user)]
    /\ UNCHANGED place

\* applyUpdate, when it adopts: the owner first, and then the membership.
WritesAdopt(k) ==
    /\ calls[k] # None /\ calls[k].what = "adopt"
    /\ calls' = [calls EXCEPT ![k].what = "adopted"]
    /\ spaces' = [spaces EXCEPT ![calls[k].on].owner = calls[k].user]
    /\ UNCHANGED place

WritesAdopted(k) ==
    /\ Writes(k, "adopted")
    /\ spaces' = [spaces EXCEPT ![calls[k].on].roles[calls[k].user] = "OWNER"]
    /\ UNCHANGED place

WritesEnsure(k) ==
    /\ Writes(k, "ensure")
    /\ spaces' = [spaces EXCEPT ![calls[k].on].exists = TRUE, ![calls[k].on].live = TRUE]
    /\ UNCHANGED place

\* Mutant of LetGo: the rooms that were removed are not let go.
LetGoOfLive(c) == RoomsOf(c)

\* The rooms that the removal of a channel lets go.
LetGo(c) == {r \in Rooms : place[r].channel = c}

WritesRemove(k) ==
    /\ Writes(k, "remove")
    /\ spaces' = [spaces EXCEPT ![calls[k].on].live = FALSE]
    /\ place' = [r \in Rooms |-> IF r \in LetGo(calls[k].on) THEN Loose ELSE place[r]]

\* setMemberRole: an owner makes another one, and becomes a MOD.
WithRole(s, target, role, saw) ==
    LET named == [spaces[s] EXCEPT !.roles[target] = role]
        passed == [named EXCEPT !.owner = target]
    IN  IF role # "OWNER" THEN named
        ELSE IF saw \in {None, target} \/ spaces[s].roles[saw] = None THEN passed
        ELSE [passed EXCEPT !.roles[saw] = "MOD"]

WritesRole(k) ==
    /\ Writes(k, "setRole")
    /\ LET e == calls[k]
       IN  spaces' = [spaces EXCEPT ![e.on] = WithRole(e.on, e.user, e.role, e.saw)]
    /\ UNCHANGED place

WritesMember(k) ==
    /\ Writes(k, "removeMember")
    /\ spaces' = [spaces EXCEPT ![calls[k].on].roles[calls[k].user] = None]
    /\ UNCHANGED place

WritesPut(k) ==
    /\ Writes(k, "putRoom")
    /\ place' = [place EXCEPT ![calls[k].room] = [channel |-> calls[k].on, position |-> calls[k].count]]
    /\ UNCHANGED spaces

WritesTake(k) ==
    /\ Writes(k, "takeRoom")
    /\ place' = [place EXCEPT ![calls[k].room] = Loose]
    /\ UNCHANGED spaces

WritesOrder(k) ==
    /\ Writes(k, "reorder")
    /\ place' = [r \in Rooms |->
           IF r \in DOMAIN calls[k].order
           THEN [place[r] EXCEPT !.position = calls[k].order[r]]
           ELSE place[r]]
    /\ UNCHANGED spaces

\* joinAsMember, for who left a sound in the room.
JoinAsMember(r, u) ==
    /\ spaces[r].exists
    /\ spaces[r].roles[u] = None
    /\ spaces' = [spaces EXCEPT ![r].roles[u] = "MEMBER"]
    /\ UNCHANGED <<place, calls>>

\* touchOrCreate, of the webhook of LiveKit: a room that was removed stays so.
TouchOrCreate(r) ==
    /\ ~spaces[r].exists
    /\ spaces' = [spaces EXCEPT ![r].exists = TRUE, ![r].live = TRUE]
    /\ UNCHANGED <<place, calls>>

-----------------------------------------------------------------------------

Requests(k) ==
    \/ \E r \in Rooms : EnsureRoom(k, r)
    \/ \E u \in Users :
          \/ \E r \in Rooms : CreateRoom(k, r, u)
          \/ \E c \in Channels : CreateChannel(k, c, u) \/ ReorderRooms(k, c, u)
          \/ \E c \in Channels, r \in Rooms : AddRoom(k, c, u, r) \/ RemoveRoom(k, c, u, r)
          \/ \E s \in Spaces : RemoveSpace(k, s, u)
          \/ \E s \in Spaces, target \in Users : RemoveMember(k, s, u, target)
          \/ \E s \in Spaces, target \in Users, role \in Roles : SetMemberRole(k, s, u, target, role)

Written(k) ==
    \/ WritesCreate(k) \/ WritesAdopt(k) \/ WritesAdopted(k) \/ WritesEnsure(k) \/ WritesRemove(k)
    \/ WritesRole(k) \/ WritesMember(k) \/ WritesPut(k) \/ WritesTake(k) \/ WritesOrder(k)

CatalogNext ==
    \/ \E k \in Calls : Requests(k) \/ CountRooms(k) \/ Written(k)
    \/ \E r \in Rooms : TouchOrCreate(r) \/ \E u \in Users : JoinAsMember(r, u)

CatalogSpec == CatalogInit /\ [][CatalogNext]_catalogVars

-----------------------------------------------------------------------------

Kinds == {"create", "adopt", "adopted", "ensure", "remove", "setRole", "removeMember",
          "addRoom", "putRoom", "takeRoom", "reorder"}

IsRequest(e) ==
    \E R \in SUBSET Rooms :
        e \in [what : Kinds, on : Spaces, user : Users \cup {None}, role : Roles \cup {None},
              saw : Users \cup {None}, room : Rooms \cup {None}, count : Nat, order : [R -> Nat]]

ASSUME NoneAssumption == None \notin Users \cup Channels \cup Roles /\ ~IsRequest(None)

CatalogTypeOK ==
    /\ spaces \in [Spaces -> [exists : BOOLEAN, live : BOOLEAN, owner : Users \cup {None},
                              roles : [Users -> Roles \cup {None}]]]
    /\ place \in [Rooms -> [channel : Channels \cup {None}, position : Nat]]
    /\ calls = [k \in Calls |-> calls[k]]
    /\ \A k \in Calls : calls[k] # None => IsRequest(calls[k])

AllServed == \A k \in Calls : calls[k] = None

\* The row of s names an owner that is not a member as OWNER; one that adopts it is
\* about to be.
OwnerAway(s) ==
    LET u == spaces[s].owner
    IN  /\ u # None
        /\ spaces[s].roles[u] # "OWNER"
        /\ \A k \in Calls :
              ~(calls[k] # None /\ calls[k].what = "adopted" /\ calls[k].on = s /\ calls[k].user = u)

\* A request that passed its checks while s was someone else's ends.
OwnerTakenLate(s) ==
    \E k \in Calls :
        /\ calls[k] # None /\ calls'[k] = None
        /\ calls[k].what \in {"setRole", "removeMember"} /\ calls[k].on = s
        /\ calls[k].user = spaces[s].owner
        /\ calls[k].saw # spaces[s].owner

\* removeMember and setMemberRole, rooms.service.ts:277-281 and 332-334 "o dono
\* nao pode ser removido": through removals, revivals, adoptions and transfers, and
\* however requests overlap, whoever the row of a room or channel names as its owner
\* stays a member, as OWNER; only the end of a request that passed its checks while
\* somebody else was the owner takes that away.
OwnersStay ==
    [][\A s \in Spaces : OwnerAway(s)' => OwnerAway(s) \/ OwnerTakenLate(s)]_catalogVars

\* Room r stands in a channel that was removed.
Astray(r) == place[r].channel # None /\ ~spaces[place[r].channel].live

\* A room that was seen to fit in a channel is put in it, after it was removed.
PutLate(r) ==
    \E k \in Calls :
        /\ calls[k] # None /\ calls'[k] = None
        /\ calls[k].what = "putRoom" /\ calls[k].room = r
        /\ ~spaces[calls[k].on].live

\* remove, channels.service.ts:237-254 "as salas dentro NAO sao apagadas - so soltas
\* do canal": a channel that goes leaves no room in it, not even one that was removed
\* and may come back, and however requests overlap none comes to stand there but by
\* the end of an addRoom that found the channel before it went.
RoomsStay ==
    [][\A r \in Rooms : Astray(r)' => Astray(r) \/ PutLate(r)]_catalogVars

\* setMemberRole and create, rooms.service.ts:294 "so existe um dono" and 186 "com
\* dono novo e sem os membros antigos".
OneOwner ==
    AllServed => \A s \in Spaces :
        spaces[s].live =>
            {u \in Users : spaces[s].roles[u] = "OWNER"} \subseteq {spaces[s].owner}

\* addRoom, channels.service.ts:389-394: a channel has as many rooms as it may.
LimitOfRooms == AllServed => \A c \in Channels : Cardinality(RoomsOf(c)) <= CHANNEL_ROOM_LIMIT

\* addRoom and reorderRooms, channels.service.ts:396-399 and 473-487: each room of a
\* channel has a position of its own.
PlacesOfTheirOwn ==
    AllServed => \A c \in Channels : \A r, q \in RoomsOf(c) :
        r # q => place[r].position # place[q].position
=============================================================================
