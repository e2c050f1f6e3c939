----------------------------- MODULE EndOutputs -----------------------------
(***************************************************************************)
(* What the gateway makes of one blocking POST to Dify: the CallResult of  *)
(* run_blocking_workflow, with the body that parse_outputs builds, and     *)
(* whether the POST is tried again.                                        *)
(*                                                                         *)
(* A response is a record of what the code looks at, each field a JSON     *)
(* value or "absent" (missing, null); a field under one that is no object  *)
(* is never read.  "number" stands for a JSON value of the wrong type.     *)
(***************************************************************************)
EXTENDS Integers, Sequences, SequencesExt

NoResponse == 0   \* in the place of an HTTP status: httpx.HTTPError

\* reply_text: "gap" contains the knowledge-gap marker, in any case.
\* source_filenames: a list of names, <<>> for all that is no list.
Responses(files) ==
    [http : {NoResponse, 200, 404, 408, 429, 500},
     json : {"invalid", "list", "object"},
     data : {"absent", "object"},
     status : {"absent", "succeeded", "failed"},
     outputs : {"absent", "object"},
     reply : {"absent", "blank", "answer", "gap"},
     ticket : {"absent", "empty", "id", "number"},
     files : files,
     urlBase : {"set", "blank"}]

\* A name is one path segment, and no "." or "..".
Plain == {"plain1", "plain2"}
Names == Plain \cup {"path", "dots", "blank", "number"}

\* Mutant of SourceFilenames: names that are no file names are left out.
SourceFilenamesLenient(response) ==
    [ok |-> TRUE, names |-> SelectSeq(response.files, LAMBDA name : name \in Plain)]

SourceFilenames(response) ==
    [ok |-> ToSet(response.files) \subseteq Plain, names |-> response.files]

\* Mutant of SmtpBody: a knowledge gap ends the body.
SmtpBodyGapLast(response) ==
    <<"reply">>
    \o (IF response.ticket = "id" /\ response.reply # "gap" THEN <<"ticket">> ELSE <<>>)
    \o (IF response.files # <<>> /\ response.reply # "gap" THEN <<"sources">> ELSE <<>>)

\* _build_smtp_body: the blocks of the reply.
SmtpBody(response) ==
    <<"reply">>
    \o (IF response.ticket = "id" THEN <<"ticket">> ELSE <<>>)
    \o (IF response.files # <<>> /\ response.reply # "gap" THEN <<"sources">> ELSE <<>>)

Succeeded(response) == response.data = "object" /\ response.status # "failed"

\* parse_outputs: the body of the reply, or <<>> for an OutputsError.
ParseOutputs(response) ==
    LET body == SmtpBody(response)
    IN IF /\ Succeeded(response) /\ response.outputs = "object"
          /\ response.reply \in {"answer", "gap"}
          /\ response.ticket # "number"
          /\ SourceFilenames(response).ok
          /\ Contains(body, "sources") => response.urlBase = "set"
       THEN body ELSE <<>>

Failure(reason, response) == [reason |-> reason, http |-> response.http, body |-> <<>>]

\* Mutant of CallResult: an error of the workflow is reported like one of HTTP.
CallResultAsStatus(response) ==
    CASE response.http = NoResponse -> Failure("http_error", response)
      [] response.http >= 400 -> Failure("http_status", response)
      [] response.http = 200 /\ response.json = "invalid" -> Failure("bad_json", response)
      [] response.http = 200 /\ response.json = "list" -> Failure("raises", response)
      [] OTHER ->
           IF ParseOutputs(response) = <<>>
           THEN [reason |-> "http_status", http |-> 500, body |-> <<>>]
           ELSE [reason |-> "none", http |-> 200, body |-> ParseOutputs(response)]

\* "raises": a body that is JSON and no object has no .get, and the exception
\* leaves the cycle.
CallResult(response) ==
    CASE response.http = NoResponse -> Failure("http_error", response)
      [] response.http >= 400 -> Failure("http_status", response)
      [] response.http = 200 /\ response.json = "invalid" -> Failure("bad_json", response)
      [] response.http = 200 /\ response.json = "list" -> Failure("raises", response)
      [] OTHER ->
           IF ParseOutputs(response) = <<>> THEN Failure("outputs_invalid", response)
           ELSE [reason |-> "none", http |-> 200, body |-> ParseOutputs(response)]

\* is_retryable_workflow_failure
IsRetryable(result) ==
    \/ result.reason = "http_error"
    \/ result.reason = "http_status" /\ (result.http >= 500 \/ result.http \in {408, 429})
=============================================================================
