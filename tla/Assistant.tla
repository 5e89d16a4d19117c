------------------------------ MODULE Assistant ------------------------------
(***************************************************************************)
(* The AI features on top of search.  RunJSON asks the primary provider and *)
(* on most errors the fallback, extracts JSON from the answer's text and    *)
(* unmarshals it; NLQ turns the result into a search, Summarize and         *)
(* Investigate return it.                                                  *)
(*                                                                         *)
(* A text is a sequence of brackets and "x", which stands for anything      *)
(* between them: keys, values, prose, code fences.  Providers are external. *)
(***************************************************************************)
EXTENDS Search

CONSTANT MaxText     \* bound: tokens of an answer

ASSUME TextBound == MaxText \in Nat

VARIABLE
    chat    \* chat[c]: the AI request of client c

assistantVars == <<table, query, walk, quiet, chat>>

Openers == {"{", "["}
Closers == {"}", "]"}
Texts == UNION {[1..n -> Openers \cup Closers \cup {"x"}] : n \in 0..MaxText}

Fields == {"limit", "other"}     \* of the object that a prompt asks for
Providers == {"gemini", "openrouter"}
Calls == {"nlq", "summarize", "investigate"}

\* pc: "ask", provider is called; "decode", text was answered; "search", NLQ
\* has its filter; "done"; "failed", 400 or 503.  from[f]: the provider field f
\* was unmarshalled from.  mixed: the primary's object had a field of the wrong
\* type.
Chat == [pc : {"idle", "ask", "decode", "search", "done", "failed"}, call : Calls,
         provider : Providers, text : Texts,
         from : [Fields -> Providers \cup {"none"}], mixed : BOOLEAN]
NoChat == [pc |-> "idle", call |-> "nlq", provider |-> "gemini", text |-> <<>>,
           from |-> [f \in Fields |-> "none"], mixed |-> FALSE]

AssistantInit == SearchInit /\ chat = [c \in Clients |-> NoChat]

-----------------------------------------------------------------------------
(* The text and what is made of it.                                        *)

Indices(text, S) == {i \in DOMAIN text : text[i] \in S}

\* extractFirstJSON: from the first opening to the last closing bracket, of
\* either kind, also where the first value has ended long before that.  <<>> if
\* there is none.  Trimming removes no bracket.
ExtractFirstJSON(text) ==
    LET open == Indices(text, Openers)
        close == Indices(text, Closers)
    IN  IF open = {} \/ close = {} \/ Max(close) <= Min(open) THEN <<>>
        ELSE SubSeq(text, Min(open), Max(close))

\* Brackets that are open after the first i tokens.
Depth(text, i) == Cardinality({j \in 1..i : text[j] \in Openers})
                  - Cardinality({j \in 1..i : text[j] \in Closers})

\* Where the bracket that opens at i is closed.
MatchOf(text, i) == Min({j \in i..Len(text) : Depth(text, j) = Depth(text, i) - 1})

\* The texts that are a JSON object or array for some reading of each "x": the
\* first bracket is closed by the last token, brackets match in kind, there is
\* a comma or a key between two values, and a key before an object's first.
\* Brackets in a string belong to an "x": the value's own enclose them.
IsJSON(text) ==
    LET n == Len(text) IN
    /\ n > 1 /\ text[1] \in Openers
    /\ Depth(text, n) = 0 /\ \A i \in 1..(n - 1) : Depth(text, i) > 0
    /\ \A i \in Indices(text, Openers) :
          text[i] = "{" <=> text[MatchOf(text, i)] = "}"
    /\ \A i \in 2..n : text[i] \in Openers => text[i - 1] \in {"[", "x"}

\* What json.Unmarshal does to out, which provider p fills: nothing if the text
\* is no JSON, or an array; otherwise it sets the fields that are given with
\* the right type, and reports an error if another one was not.
Outcomes == [error : BOOLEAN, mistyped : BOOLEAN, set : SUBSET Fields]

\* Mutant: a decoder that fills fields as it reads, up to the syntax error.
UnmarshalEagerly(json) ==
    {o \in Outcomes :
        \/ o.error /\ ~o.mistyped
        \/ IsJSON(json) /\ json[1] = "{" /\ o.mistyped = o.error}

Unmarshal(json) ==
    {o \in Outcomes :
        \/ o.error /\ ~o.mistyped /\ o.set = {}
        \/ IsJSON(json) /\ json[1] = "{" /\ o.mistyped = o.error}

-----------------------------------------------------------------------------
(* RunJSON.                                                                *)

\* The handlers: a body that does not bind, or lacks question or logs, is 400.
\* The client is done with what it searched before.
AskAI(c, call) ==
    /\ chat[c].pc \in {"idle", "done", "failed"} /\ ~Busy(c)
    /\ \/ chat' = [chat EXCEPT ![c] = [NoChat EXCEPT !.pc = "ask", !.call = call]]
       \/ chat' = [chat EXCEPT ![c] = [NoChat EXCEPT !.pc = "failed"]]
    /\ query' = [query EXCEPT ![c] = NoQuery]
    /\ walk' = [walk EXCEPT ![c] = NoWalk]
    /\ UNCHANGED <<table, quiet>>

Generate(c) ==
    /\ chat[c].pc = "ask"
    /\ \E text \in Texts : chat' = [chat EXCEPT ![c].pc = "decode", ![c].text = text]
    /\ UNCHANGED <<table, query, walk, quiet>>

\* What follows an attempt that ended in an error: the fallback, which decodes
\* into the same out, or 503.
NextProvider(c, from, mixed) ==
    \/ /\ chat[c].provider = "gemini"
       /\ chat' = [chat EXCEPT ![c].pc = "ask", ![c].provider = "openrouter",
                               ![c].text = <<>>, ![c].from = from, ![c].mixed = mixed]
    \/ /\ chat[c].provider = "openrouter"
       /\ chat' = [chat EXCEPT ![c] = [NoChat EXCEPT !.pc = "failed"]]

\* 429, another status, no connection, a timeout, no usable envelope: all of
\* them are followed by the fallback.  A request that cannot even be built is
\* not.
GenerateFails(c) ==
    /\ chat[c].pc = "ask"
    /\ \/ NextProvider(c, chat[c].from, chat[c].mixed)
       \/ chat' = [chat EXCEPT ![c] = [NoChat EXCEPT !.pc = "failed"]]
    /\ UNCHANGED <<table, query, walk, quiet>>

\* tryProvider behind Generate.
TryProvider(c) ==
    LET json == ExtractFirstJSON(chat[c].text)
        Filled(o) == [f \in Fields |-> IF f \in o.set THEN chat[c].provider
                                       ELSE chat[c].from[f]]
    IN
    /\ chat[c].pc = "decode"
    /\ \/ json = <<>> /\ NextProvider(c, chat[c].from, chat[c].mixed)
       \/ /\ json # <<>>
          /\ \E o \in Unmarshal(json) :
                \/ o.error /\ NextProvider(c, Filled(o), o.mistyped)
                \/ /\ ~o.error
                   /\ chat' = [chat EXCEPT
                        ![c].pc = IF chat[c].call = "nlq" THEN "search" ELSE "done",
                        ![c].text = <<>>, ![c].from = Filled(o)]
    /\ UNCHANGED <<table, query, walk, quiet>>

Positive(n, default) == IF n > 0 THEN n ELSE default

\* The rest of NLQ.  page and limit are the request's, answer is the model's
\* limit, which counts if the request has none.  None of them is checked as in
\* ParseSearchFilters.  The model is asked anew for every page, so there is no
\* reading on.
NLQ(c, rows, page, limit, answer) ==
    /\ chat[c].pc = "search"
    /\ answer # 0 => chat[c].from["limit"] # "none"
    /\ StartQuery(c, rows, Positive(page, 1),
                  Positive(limit, Positive(answer, DefaultSearchLimit)))
    /\ chat' = [chat EXCEPT ![c] = NoChat]
    /\ UNCHANGED <<table, walk, quiet>>

-----------------------------------------------------------------------------
ClientStep(c) ==
    \/ /\ chat[c].pc \in {"idle", "done", "failed"}
       /\ \E rows \in Filters, page, limit \in Numbers : SearchLogs(c, rows, page, limit)
       /\ chat' = [chat EXCEPT ![c] = NoChat]
    \/ QueryStep(c) /\ UNCHANGED chat
    \/ \E call \in Calls : AskAI(c, call)
    \/ Generate(c) \/ GenerateFails(c) \/ TryProvider(c)
    \/ \E rows \in Filters, page, limit, answer \in Numbers :
          NLQ(c, rows, page, limit, answer)

Next ==
    \/ TableStep /\ UNCHANGED chat
    \/ \E c \in Clients : ClientStep(c)

Spec == AssistantInit /\ [][Next]_assistantVars

-----------------------------------------------------------------------------
(* Properties.                                                             *)

TypeOK ==
    /\ SearchTypeOK
    /\ chat \in [Clients -> Chat]
    /\ \A c \in Clients : chat[c].pc # "decode" => chat[c].text = <<>>

\* The answer is the work of the provider that it names.  Fields of the failed
\* primary survive in it only if its object was JSON with a field of the wrong
\* type, and then only those the fallback has left out; a text that is not
\* JSON leaves nothing behind.
NamedProviderAnswers ==
    \A c \in Clients : chat[c].pc \in {"search", "done"} =>
        \A f \in Fields : chat[c].from[f] \in {"none", chat[c].provider} \/ chat[c].mixed

=============================================================================
