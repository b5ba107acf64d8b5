------------------------------ MODULE NestedTx ------------------------------
(* What the machine promises of nested calls: each is a transaction within  *)
(* the one that makes it.  Its changes, and those of the calls it made that *)
(* succeeded, are kept if it succeeds and gone if it does not, and the      *)
(* caller is told which.                                                    *)
EXTENDS Naturals, Sequences

VARIABLES saves,     \* for every open transaction, the changes before it
          changes,   \* the changes now
          answer     \* whether the last one that ended was kept

vars == <<saves, changes, answer>>

Opened == Len(saves)

Init == saves = <<>> /\ changes = {} /\ answer = FALSE

\* A change outside any transaction, or by the innermost one.
Change ==
    /\ changes \subseteq changes'
    /\ UNCHANGED <<saves, answer>>

\* What the caller changes on the way is before the transaction, and stays.
Begin ==
    /\ Len(saves') = Opened + 1
    /\ SubSeq(saves', 1, Opened) = saves
    /\ changes \subseteq saves'[Opened + 1]
    /\ saves'[Opened + 1] \subseteq changes'
    /\ UNCHANGED answer

Commit ==
    /\ Opened > 0
    /\ saves' = SubSeq(saves, 1, Opened - 1)
    /\ changes \subseteq changes'
    /\ answer' = TRUE

Abort ==
    /\ Opened > 0
    /\ saves' = SubSeq(saves, 1, Opened - 1)
    /\ changes' = saves[Opened]
    /\ answer' = FALSE

\* A transaction that does nothing of its own: kept, or refused.  Only the
\* nonce of one that was to create stays.
Leaf ==
    /\ UNCHANGED saves
    /\ changes \subseteq changes'
    /\ \/ answer' = TRUE
       \/ answer' = FALSE /\ \A c \in changes' \ changes : c[2] = "nonce"

\* The machine stops for good.
Crash == saves' = <<>> /\ UNCHANGED <<changes, answer>>

Next == Change \/ Begin \/ Commit \/ Abort \/ Leaf \/ Crash

Spec == Init /\ [][Next]_vars
============================================================================
