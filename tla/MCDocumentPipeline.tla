------------------------- MODULE MCDocumentPipeline -------------------------
EXTENDS DocumentPipeline

CONSTANTS d1, d2, t1, t2

\* Every article has the content of one document; all are of one date.
ContentOf == [s \in Sources |-> d1]
DateOf == [s \in Sources |-> CHOOSE n \in Dates : TRUE]
=============================================================================
