-------------------------- MODULE RpcDocumentation --------------------------
(***************************************************************************)
(* The documentation of the registered functions (s_specials.c).           *)
(* generate_documentation measures the text with documentation_size,       *)
(* allocates it, and then writes it with code of its own.  The text is     *)
(* abstracted to where it is written; the memory is the one of RpcMapper.  *)
(***************************************************************************)
EXTENDS RpcMapper, RpcDocText

VARIABLES
  allocated,  \* the bytes __doc_string points to, 0 when it is NULL
  written     \* the bytes generate_documentation has written there

docVars == <<allocated, written>>

DocInit == Init /\ allocated = 0 /\ written = 0

DocumentationSize == Sum(EntrySize, fmap) + 1

\* generate_documentation: the bytes are those up to and including the final
\* newline and NUL.
GenerateDocumentation ==
  /\ allocated' = DocumentationSize + 1
  /\ written' = Sum(EntryWritten, fmap) + 2
  /\ UNCHANGED vars

DocNext ==
  \/ Next /\ UNCHANGED docVars
  \/ GenerateDocumentation

DocSpec == DocInit /\ [][DocNext]_<<vars, docVars>>

-----------------------------------------------------------------------------
\* Measuring and writing, which are programmed apart, agree to the byte on every
\* list of functions with descriptions.  A NULL description, which s_mapper.h
\* allows, is measured as nothing and written as a placeholder: each such
\* function takes the text that much past the end of its buffer, and nothing
\* else does.
WritesMeasuredAndPlaceholders ==
  [][GenerateDocumentation =>
       written' = allocated'
                    + NoDoc * Cardinality({i \in DOMAIN fmap : fmap[i].description_length = 0})
    ]_<<vars, docVars>>
=============================================================================
