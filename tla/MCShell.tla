------------------------------ MODULE MCShell ------------------------------
(* The shell on lines of up to four tokens, some of which it runs; and a    *)
(* program that uses the heap.  The two have nothing in common: a behaviour *)
(* is of one or of the other.                                               *)
EXTENDS Shell, UserHeap

VARIABLE side

MCPipes == 1 .. 4
MCTokens == {"a", "|", ";", "&", "(", ")", "<", ">"}
MCRunLines ==
  {<<"a", "|", "a", "|", "a">>,
   <<"a", ";", "a", "<", "a">>,
   <<"(", "a", "&", ")", "|", "a">>,
   <<"a", "&", ";", "|", "a">>,
   <<"(", "a", ";", "a", ")", "|", "a", ">", "a">>,
   <<"(", "a", "|", "a", ")", "|", "a">>,
   <<"a", "|", "(", "a", "&", ")", ";", "a">>,
   <<"a", "&", ";", "a", "|", "a", "&">>,
   <<"(", "a">>}

mcvars == <<vars, heapvars, side>>
InShell(A) == side = "shell" /\ A /\ UNCHANGED <<heapvars, side>>
InHeap(A) == side = "heap" /\ A /\ UNCHANGED <<vars, side>>

MCInit == Init /\ HeapInit /\ side \in {"shell", "heap"}
MCNext == InShell(Next) \/ InHeap(HeapNext)

\* Shell's fairness.
MCSpec ==
  /\ MCInit /\ [][MCNext]_mcvars
  /\ WF_mcvars(InShell(InitStep))
  /\ \A q \in Slots \ {Init0} : WF_mcvars(InShell(Step(q)))
=============================================================================
