-------------------------- MODULE MCEvidenceCommands --------------------------
EXTENDS EvidenceCommands, FiniteSets

CONSTANTS i1, i2, e1, m1, s1, s2

\* Two groups claim the key; evaluation, import and the first simulation name
\* the first.
MCGroupOf == [c \in Command |-> IF c \in {i2, s2} THEN "b" ELSE "a"]

\* The second directory has a file of its workers.
MCBlocks == [c \in Ingest |-> IF c = i2 THEN {"worker-readiness"} ELSE {}]

\* Two ingests with a reader or an importer, the three roles, the two simulations,
\* and a simulation beside an ingest and an evaluation.
MCGiven == {{i1, i2, e1}, {i1, i2, m1}, {i1, e1, m1}, {s1, s2}, {s1, i2, e1}}

\* The first ingest and the first simulation are given twice.
MCMaxTries == [c \in Command |-> IF c \in {i1, s1} THEN 2 ELSE 1]
==============================================================================
