----------------------------- MODULE MCPdfCuration -----------------------------
(***************************************************************************)
(* A small instance of PdfCuration: pages 1 and 3 have text.               *)
(***************************************************************************)
EXTENDS PdfCuration

Entry(from, to, parent) == [filled |-> TRUE, from |-> from, to |-> to, parent |-> parent]

\* Two that will do, of three nodes and of one; one that leaves a page out.
MCAnswers ==
    {<<Entry(1, 1, 0), Entry(2, 3, 1), Entry(3, 3, 2)>>,
     <<Entry(1, 3, 0)>>,
     <<Entry(1, 1, 0), Entry(2, 2, 1)>>}
================================================================================
