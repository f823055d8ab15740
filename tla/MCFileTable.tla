---------------------------- MODULE MCFileTable ----------------------------
(* Two or three processes, two descriptors each, two or three files.       *)
EXTENDS FileTable

MCPipes == {"d1"}
=============================================================================
