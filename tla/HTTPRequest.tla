---------------------------- MODULE HTTPRequest ----------------------------
(***************************************************************************)
(* The vocabulary of one FuzzNet (FN) request: the class HTTPRequest of    *)
(* src/game/server/fn/HTTPRequest.cpp.  A request object is queued, then   *)
(* handed to Steam, then finished; only a finished object is deleted by    *)
(* CRequestManager.  How Steam reports the end of a call decides whether   *)
(* the virtual OnResponse of the request is called at all, and with what.  *)
(***************************************************************************)

\* HTTPRequest::RequestState
QUEUED   == "QUEUED"
EXECUTED == "EXECUTED"
FINISHED == "FINISHED"
RequestState == {QUEUED, EXECUTED, FINISHED}

(***************************************************************************)
(* How a call ends, as OnHTTPRequestCompleted tells the cases apart:       *)
(*   ok            2xx with a body that parses                             *)
(*   badjson       2xx with a body that does not parse                     *)
(*   nocontent     status 204                                              *)
(*   empty         another 2xx with an empty body                          *)
(*   noresponse    no answer from the server (m_bRequestSuccessful false)  *)
(*   unauthorized  status 401                                              *)
(*   servererror   any other status outside 200..299                      *)
(***************************************************************************)
Outcome == {"ok", "badjson", "nocontent", "empty", "noresponse",
            "unauthorized", "servererror"}

(***************************************************************************)
(* The argument of the handler: a parsed document, none (pJSONData NULL or *)
(* bSuccessful false, which every handler treats alike), or no call of     *)
(* OnResponse at all.                                                      *)
(***************************************************************************)
JSON   == "json"
NOJSON == "nojson"
SILENT == "silent"

\* Fault: the flag that mutes a request at the end of the map is ignored.
OnHTTPRequestCompleted_Bug(outcome, suppressResponse) ==
  IF outcome \in {"unauthorized", "servererror", "empty"}
  THEN SILENT
  ELSE IF outcome = "ok" THEN JSON ELSE NOJSON

OnHTTPRequestCompleted(outcome, suppressResponse) ==
  IF suppressResponse \/ outcome \in {"unauthorized", "servererror", "empty"}
  THEN SILENT
  ELSE IF outcome = "ok" THEN JSON ELSE NOJSON
=============================================================================
