---------------------------- MODULE MCPagination ----------------------------
(* Pagination with three names and pages of two.                            *)
EXTENDS Pagination

CONSTANTS l1, l2

MCNames == 1 .. 3
\* Every way of paging: by the book, with pages shorter or longer than asked for,
\* ignoring ?last=, linking in a circle.  Pages that are too short show what they
\* can where they are linked, and do not circle.
MCStyles == {s \in [link : BOOLEAN, cap : 1 .. 3, replay : BOOLEAN] :
                s.cap < PageSize => s.link /\ ~ s.replay}

=============================================================================
