---------------------------- MODULE MCPagination ----------------------------
(***************************************************************************)
(* Pagination over a table of up to four ids and pages of two.             *)
(***************************************************************************)
EXTENDS Pagination

\* Three pages of a reader that never gets past the first one, and more than
\* any other reader is served.
MCMaxServed == MaxId + 2
=============================================================================
