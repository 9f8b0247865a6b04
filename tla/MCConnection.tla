---------------------------- MODULE MCConnection ----------------------------
(***************************************************************************)
(* Clients with up to three requests: whole in one piece or in two, from   *)
(* memory (also with no body) or from a file, kept open or not, and one    *)
(* that is refused at its first piece while the second is still to come.   *)
(***************************************************************************)
EXTENDS Connection

Request(pieces, keep, file, len) ==
    [pieces |-> pieces, bad |-> FALSE, keep |-> keep, file |-> file, len |-> len]

Page  == Request(2, TRUE, FALSE, 2)
Empty == Request(1, TRUE, FALSE, 0)
Last  == Request(1, FALSE, FALSE, 3)
File  == Request(1, TRUE, TRUE, 3)
Huge  == [Page EXCEPT !.bad = TRUE]

MCRequests == {Page, Empty, Last, File, Huge}

MCScripts == {<< Page, Empty, Last >>, << Page, Last >>, << Empty, Page >>, << Page, Huge >>, << Huge >>,
              << File, Page >>, << Page, Page, File >>}
=============================================================================
