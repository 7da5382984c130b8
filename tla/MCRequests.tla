----------------------------- MODULE MCRequests -----------------------------
(* Instances of Requests for TLC. *)
EXTENDS Requests, Router, Capture

\* Nothing, an upload that fits, one that passes the cap with its second message.
Shapes == {<<0>>, <<1>>, <<1, 1, 1>>}

\* A law of _read_body alone, which no step can disturb.
ASSUME BodyLaw == NeverBufferedWhole

\* Laws of the route table, which is complete before the server starts.
ASSUME RouteLaws == AllowIsTrue /\ HeadMirrorsGet /\ RoutesReachable

\* Laws of what is stored of a captured payload.
ASSUME CaptureLaws == NoSecretStored /\ CutIsTight
=============================================================================
