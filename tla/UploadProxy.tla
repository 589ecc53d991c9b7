---------------------------- MODULE UploadProxy ----------------------------
(***************************************************************************)
(* The BFF forwards the body of an upload while it arrives                 *)
(* (POST /:id/documents/:documentId/file, server/routes/v1/transfers.ts): a*)
(* Transform between the request and a fetch counts it.  Client, transform *)
(* and service run at their own pace.  Sizes are in units of data.         *)
(***************************************************************************)
EXTENDS Naturals

CONSTANTS
    MAX_UPLOAD_BYTES,
    MaxBody,       \* bound: bodies
    Buffer         \* what the transform holds before the client must wait

VARIABLES
    client,   \* Content-Length (0 if chunked), what has come of the body, if more will
    limited,  \* the transform: what it has let through and not handed on
    service,  \* the upstream request: what it has taken, what it does
    answer    \* to the client

vars == <<client, limited, service, answer>>

Size == 0 .. MaxBody
Status == {0, 201, 413, 422, 503}

TypeOK ==
    /\ client.declared \in Size /\ client.chunked \in BOOLEAN /\ client.sent \in Size
    /\ client.body \in {"none", "open", "ended", "lost"}
    /\ limited.held \in 0 .. Buffer /\ limited.tooLarge \in BOOLEAN
    /\ limited.is \in {"open", "ended", "destroyed"}
    /\ service.taken \in Size /\ service.reply \in Status
    /\ service.is \in {"none", "reading", "stored", "refused", "aborted"}
    /\ answer \in Status

Init ==
    /\ client = [declared |-> 0, chunked |-> FALSE, sent |-> 0, body |-> "none"]
    /\ limited = [is |-> "open", held |-> 0, tooLarge |-> FALSE]
    /\ service = [is |-> "none", taken |-> 0, reply |-> 0]
    /\ answer = 0

Running == client.body # "none" /\ answer = 0

\* A declared oversize is refused at once, and so is all without an address.
Receive(declared, chunked) ==
    /\ client.body = "none" /\ (chunked => declared = 0)
    /\ client' = [client EXCEPT !.declared = declared, !.chunked = chunked, !.body = "open"]
    /\ IF declared > MAX_UPLOAD_BYTES THEN answer' = 413 /\ UNCHANGED service
       ELSE \/ answer' = 503 /\ UNCHANGED service
            \/ service' = [service EXCEPT !.is = "reading"] /\ UNCHANGED answer
    /\ UNCHANGED limited

\* abort.abort(): the fetch ends, unless its answer is there.
Aborted == IF service.is \in {"stored", "refused"} THEN service ELSE [service EXCEPT !.is = "aborted"]

\* Beyond the limit chunks are dropped, and the first aborts the fetch.
transform ==
    /\ Running /\ client.body = "open" /\ limited.is = "open"
    /\ client.sent < IF client.chunked THEN MaxBody ELSE client.declared
    /\ limited.held < Buffer \/ limited.tooLarge
    /\ client' = [client EXCEPT !.sent = @ + 1]
    /\ IF client.sent + 1 > MAX_UPLOAD_BYTES
       THEN /\ limited' = [limited EXCEPT !.tooLarge = TRUE]
            /\ service' = Aborted
       ELSE /\ limited' = [limited EXCEPT !.held = @ + 1]
            /\ UNCHANGED service
    /\ UNCHANGED answer

\* pipe ends the transform with the request; a declared body ends when it is there.
BodyEnds ==
    /\ Running /\ client.body = "open"
    /\ client.chunked \/ client.sent = client.declared
    /\ client' = [client EXCEPT !.body = "ended"]
    /\ limited' = [limited EXCEPT !.is = IF @ = "open" THEN "ended" ELSE @]
    /\ UNCHANGED <<service, answer>>

\* req.on('error'): the transform is destroyed and never ends.
ClientLost ==
    /\ Running /\ client.body = "open"
    /\ client' = [client EXCEPT !.body = "lost"]
    /\ limited' = [limited EXCEPT !.is = "destroyed"]
    /\ UNCHANGED <<service, answer>>

\* The service reads; the last unit and the end are two.
ServiceTakes ==
    /\ Running /\ service.is = "reading" /\ limited.held > 0 /\ limited.is # "destroyed"
    /\ service' = [service EXCEPT !.taken = @ + 1]
    /\ limited' = [limited EXCEPT !.held = @ - 1]
    /\ UNCHANGED <<client, answer>>

\* A body shorter than its Content-Length has not ended.
ServiceStores ==
    /\ Running /\ service.is = "reading" /\ limited.is = "ended" /\ limited.held = 0
    /\ service' = [service EXCEPT !.is = "stored", !.reply = 201]
    /\ UNCHANGED <<client, limited, answer>>

\* It may refuse or fail before it has read all.
ServiceRefuses ==
    /\ Running /\ service.is = "reading"
    /\ \E status \in {422, 503} : service' = [service EXCEPT !.is = "refused", !.reply = status]
    /\ UNCHANGED <<client, limited, answer>>

\* 5xx are one 503.
Relay ==
    /\ Running /\ service.is \in {"stored", "refused"}
    /\ answer' = service.reply
    /\ UNCHANGED <<client, limited, service>>

\* The fetch or its answer fails: aborted, destroyed, 120 s over, a redirect, no
\* connection.
Catch ==
    /\ Running
    /\ answer' = IF limited.tooLarge THEN 413 ELSE 503
    /\ service' = Aborted
    /\ UNCHANGED <<client, limited>>

Next ==
    \/ \E declared \in Size, chunked \in BOOLEAN : Receive(declared, chunked)
    \/ transform \/ BodyEnds \/ ClientLost
    \/ ServiceTakes \/ ServiceStores \/ ServiceRefuses \/ Relay \/ Catch

Spec == Init /\ [][Next]_vars

-----------------------------------------------------------------------------
(* Properties.                                                              *)

\* What the service stores is the whole body its client sent, never one that was
\* cut off where it grew too large or where the client was lost.
StoredWhole ==
    service.is = "stored" => /\ client.body = "ended"
                             /\ service.taken = client.sent

\* The service never reads more than the limit, and an upload that is refused as
\* too large is too large and not stored.
TooLargeNotStored ==
    /\ service.taken <= MAX_UPLOAD_BYTES
    /\ answer = 413 =>
        /\ service.is # "stored"
        /\ MAX_UPLOAD_BYTES < IF client.chunked THEN client.sent ELSE client.declared
=============================================================================
