-------------------------- MODULE MCPayloadLayout ---------------------------
(***************************************************************************)
(* Payloads of up to three units, with API counts on both sides of what a  *)
(* page holds, and texts of up to three blocks and three strings.          *)
(***************************************************************************)
EXTENDS PayloadLayout

Tuples(S) == UNION {[1..n -> S] : n \in 1..3}

\* 511 APIs fill a page; 15 and 99 are libass and ffmpeg-core; 255 twice, or
\* 170 and 169 and 169, come to a page, less the headers.
DataAddresses == {0, 8, 16, 2048, 4080}

DataJobs == [units : Tuples({1, 15, 169, 254, 255, 511}), code : {<<4>>}, strings : {<<1>>},
             data : DataAddresses]
TextJobs == [units : {<<1>>}, code : Tuples({4, 8, 6}), strings : Tuples(1..4), data : {16384}]
AllJobs == DataJobs \cup TextJobs
=============================================================================
