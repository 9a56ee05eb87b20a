----------------------------- MODULE MCOutbound -----------------------------
(***************************************************************************)
(* Either two webhooks that hear of one event, of which the second may be  *)
(* cut off by the first, or one webhook and two events, whose fanouts may  *)
(* hold both connections of the pool.  An automation that waits and sends, *)
(* and one with a condition; either may replace the other under a run.     *)
(***************************************************************************)
EXTENDS Outbound

CONSTANTS w1, w2, o1, o2

MCHooks == {w1, w2}
MCOccurrences == {o1, o2}
MCListings == {{}, {<<w1, o1>>, <<w2, o1>>}, {<<w1, o1>>, <<w1, o2>>}}

MCPlans == {<<"wait", "send_email">>, <<"condition", "add_to_segment">>}

=============================================================================
