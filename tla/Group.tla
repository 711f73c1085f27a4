-------------------------------- MODULE Group --------------------------------
(***************************************************************************)
(* cw4-group with the Admin and Hooks controllers: weighted members that   *)
(* an admin changes, snapshots of weights by height, and listeners that    *)
(* are told every change. SnapshotMap and SnapshotItem (EveryBlock) are    *)
(* from cw_storage_plus: the first change of a key in a block writes the   *)
(* value it had before into a changelog. 0 is an allowed weight.           *)
(***************************************************************************)
EXTENDS Integers, Sequences, FiniteSets, FiniteSetsExt, SequencesExt, Functions, TLC

CONSTANTS
    Addresses,           \* members
    Accounts,            \* callers, admins and NoAdmin
    Listeners,
    FirstMembers,        \* members of instantiate
    MemberLists,         \* the lists to add of UpdateMembers
    RemoveLists,         \* the lists to remove
    MaxHeight

NoAdmin == "none"
Absent == -1             \* Option::None of a weight

VARIABLES
    members,             \* MEMBERS, Absent where there is no entry
    total_weight,        \* TOTAL
    changelog,           \* changelogs of both, by key and height
    admin, hooks,        \* ADMIN, HOOKS
    mirror,              \* what a listener knows of the members
    height

vars == <<members, total_weight, changelog, admin, hooks, mirror, height>>

Total == "total"

-----------------------------------------------------------------------------
(* Snapshots *)

\* write_change: only the first change of a block is logged.
Logged(log, key, old) == IF <<key, height>> \in DOMAIN log THEN log ELSE (<<key, height>> :> old) @@ log

\* The value at the beginning of block h.
may_load_at_height(key, current, h) ==
    LET later == {k \in DOMAIN changelog : k[1] = key /\ k[2] >= h}
    IN  IF later = {} THEN current ELSE changelog[CHOOSE k \in later : \A j \in later : k[2] <= j[2]]

query_member(m, h) == may_load_at_height(m, members[m], h)

\* unwrap_or_default
query_total_weight(h) == LET t == may_load_at_height(Total, total_weight, h) IN IF t = Absent THEN 0 ELSE t

-----------------------------------------------------------------------------

Weight(w) == IF w = Absent THEN 0 ELSE w

validate_unique_members(list) == Cardinality({list[i].addr : i \in DOMAIN list}) = Len(list)

\* create, at height 0
Init ==
    /\ validate_unique_members(FirstMembers)
    /\ height = 0
    /\ members = [m \in Addresses |->
                      IF \E i \in DOMAIN FirstMembers : FirstMembers[i].addr = m
                      THEN (CHOOSE x \in ToSet(FirstMembers) : x.addr = m).weight ELSE Absent]
    /\ total_weight = FoldLeft(LAMBDA s, x : s + x.weight, 0, FirstMembers)
    /\ changelog = [key \in {<<x.addr, 0>> : x \in ToSet(FirstMembers)} \union {<<Total, 0>>} |-> Absent]
    /\ admin \in Accounts
    /\ hooks = <<>> /\ mirror = [l \in Listeners |-> members]

\* Admin::assert_admin
assert_admin(caller) == admin # NoAdmin /\ caller = admin

\* One entry of the list to add: [members, total, changelog, diffs]
AddOne(s, x) ==
    LET old == s.members[x.addr] IN
    [members |-> [s.members EXCEPT ![x.addr] = x.weight], total |-> s.total - Weight(old) + x.weight,
     changelog |-> Logged(s.changelog, x.addr, old), diffs |-> Append(s.diffs, [key |-> x.addr, old |-> old, new |-> x.weight])]

\* Fault: a member of weight zero is removed without telling the listeners.
RemoveOne_NoDiff(s, m) ==
    LET old == s.members[m] IN
    IF old = Absent THEN s
    ELSE [members |-> [s.members EXCEPT ![m] = Absent], total |-> s.total - old,
          changelog |-> Logged(s.changelog, m, old),
          diffs |-> IF old = 0 THEN s.diffs ELSE Append(s.diffs, [key |-> m, old |-> old, new |-> Absent])]

RemoveOne(s, m) ==
    LET old == s.members[m] IN
    IF old = Absent THEN s
    ELSE [members |-> [s.members EXCEPT ![m] = Absent], total |-> s.total - old,
          changelog |-> Logged(s.changelog, m, old), diffs |-> Append(s.diffs, [key |-> m, old |-> old, new |-> Absent])]

\* Additions first, then removals.
update_members(add, remove) ==
    LET start == [members |-> members, total |-> total_weight, changelog |-> changelog, diffs |-> <<>>]
        s == FoldLeft(RemoveOne, FoldLeft(AddOne, start, add), remove)
    IN  [s EXCEPT !.changelog = Logged(@, Total, total_weight)]

\* A listener applies the new weights of the message in order.
Heard(l, diffs) == FoldLeft(LAMBDA f, d : [f EXCEPT ![d.key] = d.new], mirror[l], diffs)

\* Hooks::prepare_hooks calls every listener in the same transaction.
prepare_hooks(diffs) == mirror' = [l \in Listeners |-> IF l \in ToSet(hooks) THEN Heard(l, diffs) ELSE mirror[l]]

execute_update_members(caller, add, remove) ==
    LET s == update_members(add, remove) IN
    /\ validate_unique_members(add) /\ assert_admin(caller)
    /\ members' = s.members /\ total_weight' = s.total /\ changelog' = s.changelog
    /\ prepare_hooks(s.diffs)
    /\ UNCHANGED <<admin, hooks, height>>

execute_update_admin(caller, new) ==
    /\ assert_admin(caller)
    /\ admin' = new
    /\ UNCHANGED <<members, total_weight, changelog, hooks, mirror, height>>

add_hook(l) == l \notin ToSet(hooks) /\ hooks' = Append(hooks, l)

\* The listener reads the members when it is registered.
execute_add_hook(caller, l) ==
    /\ assert_admin(caller)
    /\ add_hook(l)
    /\ mirror' = [mirror EXCEPT ![l] = members]
    /\ UNCHANGED <<members, total_weight, changelog, admin, height>>

\* The first registration of the address is removed.
remove_hook(l) ==
    /\ l \in ToSet(hooks)
    /\ hooks' = RemoveAt(hooks, Min({i \in DOMAIN hooks : hooks[i] = l}))

execute_remove_hook(caller, l) ==
    /\ assert_admin(caller)
    /\ remove_hook(l)
    /\ UNCHANGED <<members, total_weight, changelog, admin, mirror, height>>

NextBlock ==
    /\ height < MaxHeight
    /\ height' = height + 1
    /\ UNCHANGED <<members, total_weight, changelog, admin, hooks, mirror>>

Next ==
    \/ \E caller \in Accounts :
        \/ \E add \in MemberLists, remove \in RemoveLists : execute_update_members(caller, add, remove)
        \/ \E new \in Accounts : execute_update_admin(caller, new)
        \/ \E l \in Listeners : execute_add_hook(caller, l) \/ execute_remove_hook(caller, l)
    \/ NextBlock

Spec == Init /\ [][Next]_vars

-----------------------------------------------------------------------------
(* Properties *)

\* At every height, past and present, the total weight is the sum of the
\* weights of the members at that height, also when several updates fall into
\* one block: a vote that takes both from the snapshot adds up.
SnapshotsAgree ==
    \A h \in 0 .. height + 1 :
        query_total_weight(h) = MapThenSumSet(LAMBDA m : Weight(query_member(m, h)), Addresses)

\* What was the weight at the beginning of a block never changes afterwards.
SnapshotsStable ==
    [][\A h \in 0 .. height : \A m \in Addresses :
           /\ query_member(m, h)' = query_member(m, h)
           /\ query_total_weight(h)' = query_total_weight(h)]_vars

\* A registered listener that applies the messages knows the members.
ListenersAgree == \A l \in ToSet(hooks) : mirror[l] = members

\* Without an admin the group is immutable.
NoAdminImmutable == [][admin = NoAdmin => members' = members /\ admin' = NoAdmin /\ hooks' = hooks]_vars

=============================================================================
