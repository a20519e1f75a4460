------------------------------- MODULE MCLayout -------------------------------
(*****************************************************************************)
(* Where bytes and blobs are: the slab in the browser's file system, and     *)
(* the blob ranges, stripes and deposits that the chain computes in words.   *)
(* The two share no state: `which' says which of them a behaviour is of,     *)
(* and the other stays where it starts.                                      *)
(*****************************************************************************)
EXTENDS Words, NilFs

VARIABLE which

\* Every small stripe, and stripes whose sum wraps around.
MCHints == {<<0, 0>>, <<1, 1>>, <<1, 3>>, <<2, 1>>, <<2, 2>>, <<3, 1>>, <<4, 1>>,
            <<1, 255>>, <<4, 253>>}

MCInit ==
    /\ which \in {"slab", "words"}
    /\ SlabInit /\ Init
    /\ which = "words" => striped

MCNext ==
    \/ which = "slab" /\ SlabNext /\ UNCHANGED <<which, vars>>
    \/ which = "words" /\ Next /\ UNCHANGED <<which, slabVars>>

MCSpec == MCInit /\ [][MCNext]_<<which, slabVars, vars>>
=============================================================================
