----------------------- MODULE MCDocumentedExamples -----------------------
(***************************************************************************)
(* A document with a quick and a delegated shell block, one with a shell   *)
(* block and a Python block, and one with a delegated block only.          *)
(***************************************************************************)
EXTENDS DocumentedExamples
Block(id, document, language, delegated) ==
    [id |-> id, document |-> document, language |-> language, delegated |-> delegated]
MCDocuments == <<"README", "SCHEMA", "DEMO">>
MCBlocks == <<Block("r1", "README", "bash", FALSE), Block("r2", "README", "bash", TRUE),
              Block("s1", "SCHEMA", "bash", FALSE), Block("s2", "SCHEMA", "python", FALSE),
              Block("d1", "DEMO", "bash", TRUE)>>
============================================================================
