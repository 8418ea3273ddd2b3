--------------------------- MODULE ContextAssembly ---------------------------
(***************************************************************************)
(* What a request for evidence promises (build_context in                  *)
(* src/intelligence/context.py over _many, which opens a connection per    *)
(* query): each of its N parts is what the warehouse served when the part  *)
(* was asked for, in the order of the queries, and a positive answer rests *)
(* on all of them.  It does not promise that they are of one load.         *)
(***************************************************************************)
EXTENDS Integers, Sequences

CONSTANT N

VARIABLES version,   \* how many loads the warehouse has committed
          open,      \* a request is being worked on
          read,      \* the versions its parts were read at
          answered   \* the last request was answered
vars == <<version, open, read, answered>>

Init == version = 0 /\ open = FALSE /\ read = <<>> /\ answered = FALSE

Load == version' = version + 1 /\ UNCHANGED <<open, read, answered>>
Begin == ~open /\ open' = TRUE /\ read' = <<>> /\ answered' = FALSE /\ UNCHANGED version
Read == /\ open /\ Len(read) < N
        /\ read' = Append(read, version) /\ UNCHANGED <<version, open, answered>>
End == /\ open /\ open' = FALSE
       /\ answered' \in BOOLEAN /\ (answered' => Len(read) = N)
       /\ UNCHANGED <<version, read>>
\* A request that is refused before any query.
Refuse == ~open /\ answered' = FALSE /\ UNCHANGED <<version, open, read>>

Next == Load \/ Begin \/ Read \/ End \/ Refuse
Spec == Init /\ [][Next]_vars

TypeOK == version \in Nat /\ open \in BOOLEAN /\ read \in Seq(Nat) /\ answered \in BOOLEAN

\* The parts of an answer never go back in time: the evidence may be of several
\* loads, but what was read later is never older, and all of it has been served.
PartsInOrder ==
    /\ \A i, j \in 1 .. Len(read) : i <= j => read[i] <= read[j]
    /\ \A i \in 1 .. Len(read) : read[i] <= version
    /\ answered => Len(read) = N
=============================================================================
