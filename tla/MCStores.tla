------------------------------ MODULE MCStores ------------------------------
(* The two components that are directories of files which commands rewrite *)
(* and a crash leaves half written: the shared-runtime state store and the *)
(* installed runtimes, checked in a single run.  Init chooses one of the   *)
(* two; the other rests.  They share no state, so the states are those of  *)
(* the two, added up.                                                      *)
EXTENDS DistributedState, BootstrapTransactions, TLC

CONSTANTS w1, w2, p1, p2, p3, r1, r2

VARIABLE part

\* Workers and states are interchangeable, and so are the two plans of one runtime.
\* A state of one part names none of the other, so workers and plans may be
\* exchanged together.
Interchangeable ==
    {f \in Permutations(Workers \cup States \cup {p1, p2}) :
        /\ {f[w] : w \in Workers} = Workers /\ {f[s] : s \in States} = States
        /\ f[w1] = w2 <=> f[p1] = p2}

\* Two plans of one runtime, one of another.
MCRuntimeOf == [p \in Plans |-> IF p = p3 THEN r2 ELSE r1]

StoresInit == part \in {"state", "runtimes"} /\ Init /\ BootstrapInit

StoresNext ==
    /\ UNCHANGED part
    /\ IF part = "state" THEN Next ELSE UNCHANGED vars
    /\ IF part = "runtimes" THEN BootstrapNext ELSE UNCHANGED bootstrapVars

storesVars == <<part, vars, bootstrapVars>>

StoresSpec == StoresInit /\ [][StoresNext]_storesVars
=============================================================================
