---------------------------- MODULE MCDirUses ----------------------------
(* Instances of Directory for TLC.  use says which one a behaviour is of. *)
EXTENDS Integers, TLC

CONSTANTS p1, p2, p3, d1, d2, f1, f2, a, b, None

Two   == {p1, p2}
Three == {p1, p2, p3}
Perms == Permutations(Three) \cup Permutations({d1, d2}) \cup Permutations({f1, f2})
         \cup Permutations({a, b})

VARIABLES use, slot, nlink, lk, cache, pr

vars == <<use, slot, nlink, lk, cache, pr>>

AllOps == {"lookup", "creat", "unlink", "link", "rename"}

\* Two processes look up, create and unlink in two directories; link and rename
\* are alone.
Names == INSTANCE Directory WITH Proc <- Two, Dir <- {d1, d2}, File <- {f1, f2}, Name <- {a, b},
    NSlots <- 2, MAXLINK <- 3, NcSize <- 1, Ops <- AllOps, Alone <- {"link", "rename"}
\* Three processes and a cache with several entries.
Cached == INSTANCE Directory WITH Proc <- Three, Dir <- {d1}, File <- {f1, f2}, Name <- {a, b},
    NSlots <- 2, MAXLINK <- 3, NcSize <- 2, Ops <- AllOps, Alone <- {"link", "rename"}
\* Three processes make links to files that are in use.
Links == INSTANCE Directory WITH Proc <- Three, Dir <- {d1}, File <- {f1}, Name <- {a, b},
    NSlots <- 2, MAXLINK <- 3, NcSize <- 1, Ops <- AllOps \ {"rename"}, Alone <- {}

ASSUME InstanceConstants ==
    /\ Names!DirectoryConstants
    /\ Cached!DirectoryConstants
    /\ Links!DirectoryConstants

Init ==
    \/ use = "names"  /\ Names!Init
    \/ use = "cached" /\ Cached!Init
    \/ use = "links"  /\ Links!Init

Next ==
    /\ UNCHANGED use
    /\ \/ use = "names"  /\ Names!Next
       \/ use = "cached" /\ Cached!Next
       \/ use = "links"  /\ Links!Next

Spec == Init /\ [][Next]_vars

--------------------------------------------------------------------------
(* Properties.  The module says what their parts are about. *)

\* A directory has a name once, and i_nlink is the number of entries, but for calls
\* between the two writes; direnter() uses an empty slot, or in rename() the one of
\* the target, whose name exists throughout.
NamesRight ==
    /\ use = "names"  => /\ Names!TypeOK /\ Names!NamesUnique /\ Names!LinkCount
                         /\ Names!EnterEmpty /\ Names!ToExists
    /\ use = "cached" => /\ Cached!TypeOK /\ Cached!NamesUnique /\ Cached!LinkCount
                         /\ Cached!EnterEmpty /\ Cached!ToExists
    /\ use = "links"  => Links!TypeOK

\* What the name cache has is in the directory, and it has a name once.
CacheRight ==
    /\ use = "names"  => Names!CacheTrue
    /\ use = "cached" => Cached!CacheTrue /\ Cached!CacheOnce
    /\ use = "links"  => Links!CacheTrue /\ Links!CacheOnce

\* ilock2() and the lookups do not deadlock.
NoDeadlock ==
    /\ use = "names" => Names!NoDeadlock
    /\ use = "links" => Links!NoDeadlock
=============================================================================
