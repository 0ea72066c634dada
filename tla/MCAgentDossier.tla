-------------------------- MODULE MCAgentDossier --------------------------
EXTENDS DossierExamples

CONSTANT t1
MCTools == {t1}
MCTool == t1

NoGrants == [k \in GrantKinds |-> {}]
Modest(controls, evidence, stages) ==
    [grants |-> NoGrants, forbidden_tools |-> {}, intents |-> {}, autonomy |-> 1,
     sensitivity |-> 1, risk |-> 1, controls |-> controls, evidence |-> evidence,
     stages |-> stages, smuggled |-> FALSE]

\* Dossiers without powers in which at most one control or one piece of
\* evidence is missing, one whose only tool is forbidden, one with an
\* approval smuggled in, and the published examples.
MCDossiers ==
    LET complete == Modest(Controls, EvidenceKeys, {})
    IN  ExampleDossiers
        \cup {Modest(Controls \ {c}, EvidenceKeys, {}) : c \in Controls}
        \cup {Modest(Controls, EvidenceKeys \ {k}, {}) : k \in EvidenceKeys \ Stages}
        \cup {Modest(Controls, EvidenceKeys \ {k}, Stages) : k \in Stages}
        \cup {[complete EXCEPT !.smuggled = TRUE], [complete EXCEPT !.forbidden_tools = MCTools]}

\* Examples lack much: their outcomes are checked, and only the others are resubmitted.
NearlyComplete ==
    Cardinality(Controls \ dossier.controls) + Cardinality(EvidenceKeys \ dossier.evidence) <= 1
=============================================================================
