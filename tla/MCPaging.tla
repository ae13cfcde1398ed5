------------------------------ MODULE MCPaging ------------------------------
(* The paging simulation with small reference strings. *)
EXTENDS Paging

\* Legal for a process of one page and of two; the last one goes one page too
\* far for a process of two pages, then two; a process of one page is refused.
Strings == {<<0, 0, 0>>, <<0, 1, 0, 1, 0>>, <<2, 1, 3, 0, 0>>}

=============================================================================
