------------------------------- MODULE MCSync -------------------------------
(* Every write fits an empty buffer of one page; the whole payload needs    *)
(* two, unless the tail wraps.  The short one never makes it wrap.          *)
EXTENDS SyncClients

CONSTANTS a, b

MCByte == {a, b}
MCPayload == << <<a>>, <<b, a>>, <<b>> >>
MCShort == << <<a>>, <<b>> >>
MCWrites == {<<a>>, <<b>>, <<b, a>>}
=============================================================================
