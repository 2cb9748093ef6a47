------------------------------ MODULE HttpClient ------------------------------
(***************************************************************************)
(* HttpClientService.Request of nestjs-shared: one promise and the events  *)
(* of one socket, which come in whatever order the peer and Node make of   *)
(* them.  Bytes are counted in units of a chunk.                           *)
(*                                                                         *)
(* http[c].socket: "none" | "open" | "destroyed" (Req.destroy was called)  *)
(*                 | "closed"                                              *)
(*        .sent    Req.end was called                                      *)
(*        .res     "none" | "flowing" | "complete" (all of it parsed)      *)
(*                 | "ended" | "cut"                                       *)
(*        .size    TotalSize                                               *)
(*        .lost    a chunk was not pushed on Chunks                        *)
(*        .promise "none" | "pending" | "resolved" | a reason of rejection *)
(***************************************************************************)
EXTENDS Naturals

CONSTANTS
  Calls,        \* calls of Request
  MaxPayload,   \* MAX_PAYLOAD_SIZE
  MaxChunk      \* bound on the size of a chunk

ASSUME SizesAssumption == MaxPayload \in Nat /\ MaxChunk \in Nat \ {0}

VARIABLE http

Reasons == {"badRequest", "tooLarge", "badBody", "resError", "reqError", "timeout"}
Unused == [socket |-> "none", sent |-> FALSE, res |-> "none", size |-> 0,
           lost |-> FALSE, promise |-> "none"]

HttpTypeOK ==
  http \in [Calls -> [socket : {"none", "open", "destroyed", "closed"},
                      sent : BOOLEAN,
                      res : {"none", "flowing", "complete", "ended", "cut"},
                      size : 0 .. MaxPayload + MaxChunk,
                      lost : BOOLEAN,
                      promise : {"none", "pending", "resolved"} \cup Reasons]]

HttpInit == http = [c \in Calls |-> Unused]

Settled(c) == http[c].promise \notin {"none", "pending"}

\* resolve and reject: the first one settles the promise, the others do nothing.
Settle(c, how) == IF http[c].promise = "pending" THEN how ELSE http[c].promise

-----------------------------------------------------------------------------

\* A URL, a header or a body that cannot be used throws in the executor, which
\* rejects.  JSON.stringify of the body throws when the request exists already.
Request(c, input) ==
  /\ http[c].promise = "none"
  /\ CASE input = "good"     -> http' = [http EXCEPT ![c].socket = "open", ![c].sent = TRUE,
                                                     ![c].promise = "pending"]
       [] input = "badUrl"   -> http' = [http EXCEPT ![c].promise = "badRequest"]
       [] input = "circular" -> http' = [http EXCEPT ![c].socket = "open",
                                                     ![c].promise = "badRequest"]

ResponseArrives(c) ==
  /\ http[c].socket = "open" /\ http[c].sent /\ http[c].res = "none"
  /\ http' = [http EXCEPT ![c].res = "flowing"]

\* Mutant of OnData: the chunk that is too large is kept, nothing is destroyed.
OnDataUnbounded(c, n, last) ==
  /\ http[c].socket = "open" /\ http[c].res = "flowing"
  /\ http[c].size + n <= MaxPayload + MaxChunk
  /\ http' = [http EXCEPT ![c].size = http[c].size + n,
                          ![c].res = IF last THEN "complete" ELSE "flowing",
                          ![c].lost = http[c].size + n > MaxPayload]

\* A chunk: the last one may have been parsed together with the end of the message.
\* Req.destroy takes the listeners of data away; end may still follow.
OnData(c, n, last) ==
  /\ http[c].socket = "open" /\ http[c].res = "flowing"
  /\ LET size == http[c].size + n
         res == IF last THEN "complete" ELSE "flowing"
     IN IF size > MaxPayload
        THEN http' = [http EXCEPT ![c].size = size, ![c].res = res, ![c].socket = "destroyed",
                                  ![c].lost = TRUE, ![c].promise = Settle(c, "tooLarge")]
        ELSE http' = [http EXCEPT ![c].size = size, ![c].res = res]

\* The message may end without another chunk.
MessageCompletes(c) ==
  /\ http[c].socket = "open" /\ http[c].res = "flowing"
  /\ http' = [http EXCEPT ![c].res = "complete"]

\* The body is parsed when it is JSON: that may throw, unless it is empty.  Every
\* status resolves.
OnEnd(c) ==
  /\ http[c].res = "complete"
  /\ \E parsed \in {TRUE} \cup {http[c].size = 0} :
       http' = [http EXCEPT ![c].res = "ended", ![c].socket = "closed",
                            ![c].promise = Settle(c, IF parsed THEN "resolved" ELSE "badBody")]

\* The response is cut off: by the peer, or by Req.destroy.
OnResponseError(c) ==
  /\ http[c].socket \in {"open", "destroyed"} /\ http[c].res = "flowing"
  /\ http' = [http EXCEPT ![c].res = "cut", ![c].socket = "closed",
                          ![c].promise = Settle(c, "resError")]

\* No connection, a hang up, or a response that cannot be parsed.
OnRequestError(c) ==
  \/ /\ http[c].socket \in {"open", "destroyed"} /\ http[c].res = "none"
     /\ http' = [http EXCEPT ![c].socket = "closed", ![c].promise = Settle(c, "reqError")]
  \/ /\ http[c].socket = "open" /\ http[c].res = "flowing"
     /\ http' = [http EXCEPT ![c].socket = "destroyed", ![c].promise = Settle(c, "reqError")]

\* Mutant of OnTimeout: it rejects and leaves the socket to the peer.
OnTimeoutKeepsSocket(c) ==
  /\ http[c].socket = "open" /\ http[c].res \in {"none", "flowing"}
  /\ http[c].promise = "pending"
  /\ http' = [http EXCEPT ![c].promise = "timeout"]

\* The socket was idle for the time given.
OnTimeout(c) ==
  /\ http[c].socket = "open" /\ http[c].res \in {"none", "flowing"}
  /\ http' = [http EXCEPT ![c].socket = "destroyed", ![c].promise = Settle(c, "timeout")]

SocketEvent(c) ==
  \/ ResponseArrives(c)
  \/ \E n \in 1 .. MaxChunk, last \in BOOLEAN : OnData(c, n, last)
  \/ MessageCompletes(c)
  \/ OnEnd(c)
  \/ OnResponseError(c)
  \/ OnRequestError(c)
  \/ OnTimeout(c)

\* Request is called once for each call, with an input of whatever kind.
HttpClientNext ==
  \E c \in Calls : (\E input \in {"good", "badUrl", "circular"} : Request(c, input)) \/ SocketEvent(c)

HttpClientSpec == HttpInit /\ [][HttpClientNext]_http

\* What Node brings about by itself.
SocketClosing(c) ==
  \/ OnTimeout(c)
  \/ OnEnd(c)
  \/ http[c].socket = "destroyed" /\ (OnResponseError(c) \/ OnRequestError(c))

-----------------------------------------------------------------------------
(* Properties                                                              *)

\* A call that resolved was given every chunk of a response that came to its end,
\* before any timeout or limit: Request never resolves with the part of a body.
SuccessIsWhole ==
  \A c \in Calls : http[c].promise = "resolved" => http[c].res = "ended" /\ ~ http[c].lost

\* A socket that Request opened is closed in the end, also that of a request whose
\* body could not be serialized and that is never ended.
SocketsClose == \A c \in Calls : http[c].socket = "open" ~> http[c].socket = "closed"
=============================================================================
