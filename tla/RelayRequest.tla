---------------------------- MODULE RelayRequest ----------------------------
(***************************************************************************)
(* One request through the relay (interfaces/http/relay): proxyHandler,     *)
(* routing, forwardRequest and the copying of the upstream's answer to the   *)
(* client, line by line or at once, while the upstream may break off and     *)
(* the client may go away.  Requests share the profile, the session cache    *)
(* and the log worker only; SessionCache and BackgroundWorker model those.   *)
(*                                                                         *)
(* The response writer is gin's: a status that was set is sent with the      *)
(* first byte of the body, by a flush, or when the handler returns.          *)
(* Of a line the kind is kept: what it means to Codex.                       *)
(***************************************************************************)
EXTENDS ModelRouting, FiniteSets

CONSTANTS
    Profiles,    \* profiles that may be configured
    Models,      \* models that may be asked for; << >> is none
    MaxLines     \* bound: lines of an answer

\* Lines of an answer: "completed" and "failed" end a Codex response,
\* "unsuccessful" is a response.completed with an error, "part" is a line that
\* broke off, "json" an answer that is no event stream.
Lines == {"data", "blank", "completed", "failed", "unsuccessful"}
Kinds == Lines \union {"part", "json"}
Own == "own"              \* the relay's own JSON
None == 0                 \* no status

\* The names of a platform's providers are distinct, and a map is finite.
ASSUME RelayConstants ==
    /\ MaxLines \in Nat
    /\ \A f \in Profiles :
          /\ \A i, j \in DOMAIN f.providers : f.providers[i].name = f.providers[j].name => i = j
          /\ \A p \in Range(f.providers) :
                IsFiniteSet(DOMAIN p.mapping) /\ DOMAIN p.mapping \subseteq Seq(Nat)

VARIABLES
    profile,    \* the profile that was loaded, with its platform
    model,      \* the model asked for
    field,      \* the body has a model, if only an empty one
    bound,      \* the name the session is bound to, or ""
    at,         \* how far the request is
    target,     \* the provider, as a set of at most one, and the effective model
    answer,     \* the upstream's status, None before, and whether it is a stream
    lines,      \* what was read of the upstream's answer
    end,        \* how reading ended
    outcome,    \* codexStreamOutcome.status
    set, sent,  \* the status set in the writer, the one sent to the client
    body,       \* what was written to the client
    gone,       \* the client has gone away
    failed,     \* writing to the client has failed
    logged,     \* RequestLogs enqueued: their HttpCode
    credited    \* handleSuccessfulSession was called

vars == <<profile, model, field, bound, at, target, answer, lines, end, outcome,
          set, sent, body, gone, failed, logged, credited>>
asked == <<profile, model, field, bound>>
upstream == <<answer, lines, end, outcome>>
client == <<set, sent, body, failed>>
results == <<logged, credited>>

codex == profile.platform = "codex"
claude == profile.platform = "claude"

Names == UNION {{p.name : p \in Range(f.providers)} : f \in Profiles}

Init ==
    /\ profile \in Profiles /\ model \in Models
    /\ field \in BOOLEAN /\ (model # << >> => field) /\ (field => claude \/ model # << >>)
    /\ bound \in Names \union {""}
    /\ at = "arrived"
    /\ target = [provider |-> {}, model |-> << >>]
    /\ answer = [status |-> None, stream |-> FALSE]
    /\ lines = << >> /\ end = "open" /\ outcome = "pending"
    /\ set = None /\ sent = None /\ body = << >>
    /\ gone = FALSE /\ failed = FALSE
    /\ logged = << >> /\ credited = FALSE

-----------------------------------------------------------------------------
(* The writer.                                                              *)

\* Mutant of Written: what was sent is not asked for.
NeverWritten == FALSE
Written == sent # None

\* c.JSON(status, ...) as the last act of the handler.
RespondOwn(status) ==
    /\ set' = status /\ sent' = status
    /\ body' = IF gone THEN body ELSE Append(body, Own)
    /\ UNCHANGED failed

\* Write these kinds; a client that has gone may make it fail.
Write(kinds) ==
    IF kinds = << >> THEN UNCHANGED <<sent, body, failed>>
    ELSE /\ sent' = set'
         /\ failed' \in IF gone THEN BOOLEAN ELSE {FALSE}
         /\ body' = IF gone THEN body ELSE body \o kinds

-----------------------------------------------------------------------------
(* Routing.                                                                 *)

\* The body cannot be read, or the profile cannot be loaded.
Refuse ==
    /\ at = "arrived"
    /\ \E status \in {400, 500} : RespondOwn(status)
    /\ at' = "ended"
    /\ UNCHANGED <<asked, target, upstream, gone, results>>

\* Mutant of Route: the bound provider and the default one.
RouteBoth ==
    LET toBound == IF bound = "" THEN {} ELSE ResolveProvider(profile, bound, model)
        provider == toBound \union ResolveProvider(profile, "", model)
    IN
    /\ at = "arrived"
    /\ IF provider = {}
       THEN /\ RespondOwn(502) /\ at' = "ended" /\ UNCHANGED target
       ELSE /\ target' = [provider |-> provider, model |-> << >>]
            /\ at' = "prepare"
            /\ UNCHANGED client
    /\ UNCHANGED <<asked, upstream, gone, results>>

\* A binding that does not resolve is cleared and the default provider taken.
Route ==
    LET toBound == IF bound = "" THEN {} ELSE ResolveProvider(profile, bound, model)
        provider == IF toBound # {} THEN toBound ELSE ResolveProvider(profile, "", model)
    IN
    /\ at = "arrived"
    /\ IF provider = {}
       THEN /\ RespondOwn(502) /\ at' = "ended" /\ UNCHANGED target
       ELSE /\ target' = [provider |-> provider, model |-> << >>]
            /\ at' = "prepare"
            /\ UNCHANGED client
    /\ UNCHANGED <<asked, upstream, gone, results>>

\* applyRequestBodyReplacements, as far as it changes the model: each in turn,
\* if it is for any value or for the one that is there now.
Replaced(replacements, name) ==
    LET now[i \in 0..Len(replacements)] ==
          IF i = 0 THEN name
          ELSE IF replacements[i].match \in {{}, {now[i - 1]}} THEN replacements[i].value
          ELSE now[i - 1]
    IN  now[Len(replacements)]

\* The model that is mapped: to Claude's providers, the one in the body after
\* its replacements.
Requested(p) == IF claude /\ field THEN Replaced(p.replacements, model) ELSE model

\* The body is changed, where a literal of a replacement, of the model or of
\* something else, may be no JSON; then the model is mapped, and gin recovers
\* from a panic with a status and no body.
Prepare ==
    LET p == CHOOSE p \in target.provider : TRUE IN
    /\ at = "prepare"
    /\ \/ \E order \in SetToAllKPermutations(DOMAIN p.mapping) :
            /\ Len(order) = Cardinality(DOMAIN p.mapping)
            /\ LET effective == GetEffectiveModel(p, Requested(p), order) IN
               IF effective = Panic
               THEN /\ set' = 500 /\ sent' = 500 /\ at' = "ended"
                    /\ UNCHANGED <<body, failed, target>>
               ELSE /\ target' = [target EXCEPT !.model = effective]
                    /\ at' = "send"
                    /\ UNCHANGED client
       \/ claude /\ RespondOwn(502) /\ at' = "ended" /\ UNCHANGED target
    /\ UNCHANGED <<asked, upstream, gone, results>>

-----------------------------------------------------------------------------
(* forwardRequest.                                                          *)

\* Return from forwardRequest and from the handler.  The log is enqueued by a
\* defer; a failure is answered with JSON unless a byte was sent; gin sends a
\* status that is still only set.
Return(ok) ==
    /\ logged' = Append(logged, answer.status)
    /\ credited' = ok
    /\ at' = "ended"
    /\ IF ok \/ Written
       THEN sent' = set /\ UNCHANGED <<set, body, failed>>
       ELSE RespondOwn(502)
    /\ UNCHANGED <<asked, target, upstream, gone>>

\* The client or the request cannot be made, or Do fails.
SendFails == at = "send" /\ Return(FALSE)

\* Response headers.  An event stream is read by lines only when it succeeded.
Answered ==
    /\ at = "send"
    /\ \E status \in {200, 429}, stream \in BOOLEAN :
          /\ answer' = [status |-> status, stream |-> stream]
          /\ at' = IF status = 200 /\ stream THEN "first" ELSE "buffered"
    /\ UNCHANGED <<asked, target, lines, end, outcome, client, gone, results>>

\* codexStreamOutcome.Observe: the first terminal event stays.
Observed(before, kinds) ==
    LET terminal == {i \in DOMAIN kinds : kinds[i] \in {"completed", "failed"}} IN
    IF ~codex \/ before # "pending" \/ terminal = {} THEN before ELSE kinds[Min(terminal)]

\* Reading ends with EOF, with an error of the upstream, or because the client
\* has gone and its context is cancelled.
Ends == {"eof", "broken"} \union {e \in {"canceled"} : gone}

\* writeBufferedUpstreamResponse: status and headers are set, the whole body is
\* read, observed and written, a part of it if reading fails.
Buffered ==
    /\ at = "buffered"
    /\ set' = answer.status
    /\ end' \in Ends
    /\ \E n \in 0..MaxLines : \E kinds \in [1..n -> IF answer.stream THEN Lines ELSE {"json"}] :
          /\ lines' = kinds
          /\ outcome' = IF answer.status = 200 THEN Observed(outcome, kinds) ELSE outcome
          /\ Write(kinds)
    /\ at' = "return"
    /\ UNCHANGED <<asked, target, answer, gone, results>>

\* The first line of a stream cannot be read: nothing was set or sent.
FirstFails ==
    /\ at = "first"
    /\ end' \in Ends \ {"eof"}
    /\ at' = "return"
    /\ UNCHANGED <<asked, target, answer, lines, outcome, client, gone, results>>

\* The stream is a short text without a line end: JSON in disguise, or nothing.
Pseudo ==
    /\ at = "first"
    /\ set' = answer.status
    /\ end' = "eof"
    /\ lines' \in {<< >>, <<"json">>}
    /\ Write(lines')
    /\ at' = "return"
    /\ UNCHANGED <<asked, target, answer, outcome, gone, results>>

\* A line, observed, written, and flushed if it is blank; the loop ends when
\* writing fails.
ReadLine ==
    /\ at \in {"first", "stream"}
    /\ Len(lines) < MaxLines
    /\ set' = answer.status
    /\ \E kind \in Lines :
          /\ lines' = Append(lines, kind)
          /\ outcome' = Observed(outcome, IF kind = "blank" THEN << >> ELSE <<kind>>)
          /\ Write(<<kind>>)
    /\ at' = IF failed' THEN "return" ELSE "stream"
    /\ UNCHANGED <<asked, target, answer, end, gone, results>>

\* Reading ends; what was read of a last line is written first, then flushed.
\* A long first line can break off too, after the status was set.
StreamEnds ==
    /\ at \in {"first", "stream"}
    /\ set' = answer.status
    /\ \E part \in {<< >>, <<"part">>} :
          /\ at = "first" => part # << >>
          /\ lines' = lines \o part
          /\ Write(part)
    /\ end' \in IF at = "first" THEN Ends \ {"eof"} ELSE Ends
    /\ at' = "return"
    /\ UNCHANGED <<asked, target, answer, outcome, gone, results>>

\* Mutant of Succeeded: a client that leaves always counts against the provider.
SucceededAtEnd == answer.status = 200 /\ ~failed /\ end = "eof" /\ outcome # "failed"

\* The status of a Codex stream decides before the end of the copying.
Succeeded ==
    /\ answer.status = 200
    /\ \/ ~failed /\ end = "eof" /\ outcome # "failed"
       \/ ~failed /\ end = "canceled" /\ outcome = "completed"

Finish ==
    /\ at = "return"
    /\ Return(Succeeded)

\* The client disconnects, or has seen what it waits for.
ClientLeaves ==
    /\ at # "ended" /\ ~gone
    /\ gone' = TRUE
    /\ UNCHANGED <<asked, at, target, upstream, client, results>>

Next == Refuse \/ Route \/ Prepare \/ SendFails \/ Answered \/ Buffered
          \/ FirstFails \/ Pseudo \/ ReadLine \/ StreamEnds \/ Finish \/ ClientLeaves

Spec == Init /\ [][Next]_vars

-----------------------------------------------------------------------------
(* Properties.                                                              *)

Phases == {"arrived", "prepare", "send", "buffered", "first", "stream", "return", "ended"}

RequestTypes ==
    /\ profile \in Profiles /\ model \in Models /\ field \in BOOLEAN
    /\ bound \in Names \union {""}
    /\ at \in Phases
    /\ target.provider \subseteq Range(profile.providers)
    /\ Cardinality(target.provider) <= 1

AnswerTypes ==
    /\ answer.status \in {None, 200, 429} /\ answer.stream \in BOOLEAN
    /\ lines \in Seq(Kinds) /\ Len(lines) <= MaxLines + 1
    /\ end \in {"open", "eof", "broken", "canceled"}
    /\ outcome \in {"pending", "completed", "failed"}

Codes == {None, 200, 400, 429, 500, 502}
Bodies == Kinds \union {Own}

ClientTypes ==
    /\ set \in Codes /\ sent \in Codes
    /\ body \in Seq(Bodies)
    /\ failed \in BOOLEAN

ResultTypes ==
    /\ credited \in BOOLEAN
    /\ logged \in Seq({None, 200, 429}) /\ Len(logged) <= 1

\* Type invariant.
TypeOK ==
    /\ RequestTypes /\ AnswerTypes /\ ClientTypes /\ ResultTypes
    /\ gone \in BOOLEAN

\* Nothing is put into an answer ("appending JSON would insert illegal content
\* into the bytes already sent", http.go:74-75): the client has the beginning
\* of what the upstream sent, under the upstream's status, or only the relay's
\* own error.
AnswerIntact ==
    /\ body = <<Own>> \/ IsPrefix(body, lines)
    /\ body # << >> /\ body # <<Own>> => sent = answer.status
    /\ gone \/ body = <<Own>> \/ body = lines

\* What the first terminal event of a Codex answer says; a response.completed
\* with an error is none.
CompletedFirst(s) ==
    \E i \in DOMAIN s : s[i] = "completed" /\ "failed" \notin Range(SubSeq(s, 1, i))
Undecided(s) == Range(s) \intersect {"completed", "failed"} = {}

\* The provider has served the answer: the client could be written to, and
\* either the upstream came to its end, or Codex left after response.completed
\* (codex_stream_test.go:84).  An undecided Codex answer that ends in order is
\* exempt: codex_stream.go:17-19 has the events decide, the code counts it.
Served ==
    /\ answer.status = 200 /\ ~failed
    /\ \/ end = "eof" /\ (codex => CompletedFirst(lines) \/ Undecided(lines))
       \/ end = "canceled" /\ codex /\ CompletedFirst(lines)

\* A session is bound or renewed when the handler ends with an answer that was
\* served, and only then: "HTTP 200 only means that the stream is established"
\* (codex_stream.go:17-19).  No served answer is lost because the client left,
\* and none is credited that broke off, said that it failed, or was the relay's.
CreditedServed ==
    /\ credited <=> at = "ended" /\ Served
    /\ credited => sent = 200 /\ Own \notin Range(body)

\* A request is sent for one model, whatever order the maps were gone through
\* (models.go:295-296): that of the most specific pattern for the model in the
\* body after its replacements, as request_body_replacements_test.go:11 has it.
\* A valid provider is not sent a fixed name it does not list, unless a
\* replacement put another model into the body: ResolveProvider has asked for
\* the one before.
OneTarget ==
    \A p \in target.provider :
        LET requested == Requested(p)
            matching == {q \in DOMAIN p.mapping : MatchWildcard(q, requested)}
            best == CHOOSE q \in matching : \A o \in matching \ {q} :
                        \/ Literals(q) > Literals(o)
                        \/ Literals(q) = Literals(o) /\ Precedes(q, o)
        IN  at \notin {"prepare", "ended"} =>
            /\ target.model = IF requested \in DOMAIN p.mapping THEN p.mapping[requested]
                              ELSE IF matching = {} THEN requested
                              ELSE ApplyWildcardMapping(best, p.mapping[best], requested)
            /\ ValidConfiguration(p) /\ p.supported # << >> /\ requested = model /\ model # << >> =>
                 \/ \E s \in DOMAIN p.supported :
                       p.supported[s] /\ (s = target.model \/ MatchWildcard(s, target.model))
                 \/ \E q \in DOMAIN p.mapping :
                       Wild(p.mapping[q]) /\ (q = model \/ MatchWildcard(q, model))
=============================================================================
