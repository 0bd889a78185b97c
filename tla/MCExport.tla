------------------------------ MODULE MCExport ------------------------------
(***************************************************************************)
(* Small tables for Export: the groups a and b, skipped lines within and   *)
(* between them, rows without a group, a bad line at the end.              *)
(***************************************************************************)
EXTENDS Export

CONSTANTS a, b

A == [kind |-> "active", group |-> a]
B == [kind |-> "active", group |-> b]
None == [kind |-> "active", group |-> NoGroup]
To == [kind |-> "redirect", group |-> a]
Gone == [kind |-> "deleted", group |-> b]
Bad == [kind |-> "bad", group |-> NoGroup]

Tables == {<<A, A, B, B, None, None>>, <<A, Gone, A, To, B, A>>, <<None, None, None, B, B>>,
           <<A, B, B, Bad, A>>}

MCJobs == [lines : Tables, by_work : BOOLEAN, redirects : {TRUE}]
          \cup [lines : {<<A, Gone, A, To, B, A>>}, by_work : BOOLEAN, redirects : {FALSE}]
=============================================================================
