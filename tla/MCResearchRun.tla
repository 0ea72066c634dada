--------------------------- MODULE MCResearchRun ---------------------------
EXTENDS ResearchRun

CONSTANTS t1, t2

Ceilings == {<<s, 10>> : s \in 1..13} \cup {<<13, c>> : c \in 0..7} \cup {<<0, 0>>}

\* One request, in one tab: every combination of what the engine looks at.
MCRequests ==
    {[mentions |-> m, claims |-> FALSE, risk |-> k, sensitivity |-> d, external |-> e,
      write |-> w, owner |-> o, authority |-> a, maxSteps |-> c[1], maxToolCalls |-> c[2]] :
        m \in {{}, {"vendor"}, {"financial"}, {"loop"}}, k \in {"low", "high"},
        d \in Sensitivities, e, w, o, a \in BOOLEAN, c \in Ceilings}
    \cup ToSet(DemoRequests) \cup {ConstrainedRequest, [DemoRequests[1] EXCEPT !.claims = TRUE]}

\* Two requests that are rejected at once, for the interleavings of two tabs.
First == DemoRequests[4]
Second == [DemoRequests[1] EXCEPT !.claims = TRUE]

MCSessions ==
    {(t1 :> <<q>>) @@ (t2 :> <<>>) : q \in MCRequests}
    \cup {(t1 :> <<First, Second>>) @@ (t2 :> <<Second, First>>),
          (t1 :> <<First, ConstrainedRequest, First>>) @@ (t2 :> <<Second>>)}
=============================================================================
