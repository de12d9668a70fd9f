------------------------------ MODULE MCLibraries ------------------------------
(***************************************************************************)
(* What the two libraries find in the process, on small instances: the     *)
(* image that SoLoader makes of them, and of the fake JNI environment the  *)
(* registry of references and the pool of method ids.  They share no       *)
(* state, so a behaviour runs one of them, chosen at its start, while the  *)
(* others rest.                                                            *)
(***************************************************************************)
EXTENDS SoLoader, JniRefs, MethodIds, TLC

CONSTANTS o1, o2, o3, t1, t2

VARIABLE part     \* which of the three runs

vars == <<lvars, jvars, idvars, part>>

Names == {"f", "g", "h"}

\* An executable segment that ends in the middle of a page and a writable one
\* behind it, or the other way round.
Layouts == {{[from |-> 0, to |-> 3, x |-> TRUE],  [from |-> 4, to |-> 5, x |-> FALSE]},
            {[from |-> 0, to |-> 1, x |-> FALSE], [from |-> 2, to |-> 3, x |-> TRUE]}}

\* Each name is defined, imported or absent.
Files == {[segs |-> s, defined |-> d, imported |-> i, relative |-> {0}] :
             s \in Layouts, d \in SUBSET Names, i \in SUBSET Names}

Valid == {f \in Files : f.defined \cap f.imported = {}}

\* Any set of words to rebase, in a file without symbols.
Relatives == {[segs |-> CHOOSE s \in Layouts : TRUE, defined |-> {}, imported |-> {}, relative |-> r] :
                 r \in SUBSET Word}

BothImages == [l \in Lib |-> IF l = "bass" THEN Valid \cup Relatives ELSE Valid]

ThreeObjects == {o1, o2, o3}
ObjSymmetry == Permutations(ThreeObjects)

\* Two methods of one name, and two of one signature.
Overloads == {[name |-> "play", sig |-> "(I)V"], [name |-> "play", sig |-> "()V"],
              [name |-> "stop", sig |-> "()V"]}

\* What the engine does after it strayed is not followed, nor what two threads do
\* after one wrote outside the pool.
Followed == ~strayed /\ ~overran

MCInit ==
    /\ LoaderInit /\ Init /\ IdInit
    /\ part \in {"loader", "references", "methods"}
    /\ part # "loader" => image = [l \in Lib |-> CHOOSE f \in Valid : TRUE]

MCNext ==
    /\ part' = part
    /\ \/ part = "loader" /\ LoaderNext /\ UNCHANGED <<jvars, idvars>>
       \/ part = "references" /\ Next /\ UNCHANGED <<lvars, idvars>>
       \/ part = "methods" /\ IdNext /\ UNCHANGED <<lvars, jvars>>

MCSpec == MCInit /\ [][MCNext]_vars
================================================================================
