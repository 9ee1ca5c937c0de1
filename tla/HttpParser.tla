----------------------------- MODULE HttpParser -----------------------------
(***************************************************************************)
(* The wrapper of http-parser (src/src/module/iotjs_module_httpparser.c)   *)
(* with the callbacks of src/src/js/http_common.js: how the fragments of   *)
(* header fields, values and urls that http-parser reports become the      *)
(* headers and the url of an IncomingMessage.  The wrapper has HEADER_MAX  *)
(* slots and flushes them to JavaScript when they are used up.             *)
(*                                                                         *)
(* Headers are numbered over the whole connection and messages, too.  A    *)
(* text is the set of the headers (or messages) that its fragments are of, *)
(* so that text of another header, or text that is missing, can be seen.   *)
(* A parser serves one connection, over which several messages may come.   *)
(***************************************************************************)
EXTENDS Naturals, Sequences

CONSTANTS
  HEADER_MAX,   \* the number of slots
  MaxMessages,  \* bound on the messages of the connection
  MaxHeaders    \* bound on the headers of all messages

ASSUME HttpParserAssumption ==
  HEADER_MAX \in Nat \ {0, 1} /\ MaxMessages \in Nat /\ MaxHeaders \in Nat

VARIABLES
  \* http-parser: what it reads, the message, the last header and the last one
  \* before this message, and whether any message had trailing headers
  phase, msg, count, first, trailed,
  \* iotjs_httpparserwrap_t
  type, nFields, nValues, fields, values, url, flushed,
  \* the JavaScript object: _headers, _url, and the incoming message
  jsHeaders, jsUrl, incoming

httpParser == <<phase, msg, count, first, trailed>>
wrapper == <<type, nFields, nValues, fields, values, url, flushed>>
script == <<jsHeaders, jsUrl, incoming>>
hvars == <<httpParser, wrapper, script>>

Slots == 0 .. (HEADER_MAX - 1)
Text == SUBSET Nat
Header == Text \X Text
Headers == Seq(Header)

\* http-parser is in the headers (a trailer's are told apart by trailed).
InHead == phase \in {"line", "url", "field", "value"}

Message ==
  [msg : Nat, from : Nat, to : Nat, headers : Headers, url : Text,
   late : BOOLEAN,       \* there was a flush before this message
   trailed : BOOLEAN,    \* an earlier message had trailing headers
   body : Text,          \* of what it was pushed
   complete : BOOLEAN]

NoMessage == [msg |-> 0, from |-> 0, to |-> 0, headers |-> <<>>, url |-> {},
              late |-> FALSE, trailed |-> FALSE, body |-> {}, complete |-> FALSE]

HTypeOK ==
  /\ phase \in {"idle", "line", "url", "field", "value", "body",
                "trailerField", "trailerValue", "dead"}
  /\ msg \in Nat /\ count \in Nat /\ first \in Nat /\ trailed \in BOOLEAN
  /\ type \in {"request", "response"}
  /\ nFields \in 0 .. HEADER_MAX /\ nValues \in 0 .. HEADER_MAX
  /\ fields \in [Slots -> Text] /\ values \in [Slots -> Text]
  /\ url \in Text /\ flushed \in BOOLEAN
  /\ jsHeaders \in Headers /\ jsUrl \in Text /\ incoming \in Message

\* createHTTPParser with connectionListener, or with setupConnection, which
\* reinitializes it for responses.
HInit ==
  /\ phase = "idle" /\ msg = 0 /\ count = 0 /\ first = 0 /\ trailed = FALSE
  /\ type \in {"request", "response"} /\ nFields = 0 /\ nValues = 0
  /\ fields = [i \in Slots |-> {}] /\ values = [i \in Slots |-> {}]
  /\ url = {} /\ flushed = FALSE
  /\ jsHeaders = <<>> /\ jsUrl = {} /\ incoming = NoMessage

\* iotjs_httpparserwrap_make_header
make_header == [i \in 1 .. nValues |-> <<fields[i - 1], values[i - 1]>>]

\* The url that a flush hands over.
flushed_url == IF type = "request" THEN url ELSE {}

\* parserOnHeaders, with AddHeader.
parserOnHeaders(headers, u) ==
  jsHeaders' = jsHeaders \o headers /\ jsUrl' = jsUrl \cup u

\* iotjs_httpparserwrap_flush
flush == parserOnHeaders(make_header, flushed_url) /\ url' = {} /\ flushed' = TRUE

\* Mutant: the url of the last message is left.
on_message_begin_KeepsUrl ==
  /\ phase = "idle" /\ msg < MaxMessages
  /\ phase' = "line" /\ msg' = msg + 1 /\ first' = count
  /\ UNCHANGED <<count, trailed, wrapper, script>>

\* on_message_begin
on_message_begin ==
  /\ phase = "idle" /\ msg < MaxMessages
  /\ phase' = "line" /\ msg' = msg + 1 /\ first' = count
  /\ url' = {}
  /\ UNCHANGED <<count, trailed, type, nFields, nValues, fields, values, flushed, script>>

\* A fragment of the url, or of the status (whose text nothing depends on).
on_url ==
  /\ phase \in {"line", "url"} /\ phase' = "url"
  /\ url' = IF type = "request" THEN url \cup {msg} ELSE url
  /\ UNCHANGED <<msg, count, first, trailed, type, nFields, nValues, fields, values,
                 flushed, script>>

\* Headers may follow: a request has a url.
HeadersMayFollow ==
  \/ phase \in {"url", "value", "body", "trailerValue"}
  \/ phase = "line" /\ type = "response"

\* The slot of the fragment, and whether a new one is opened by it.
opens == nFields = nValues
overflow == opens /\ nFields + 1 = HEADER_MAX

\* Mutant: the slots are flushed one header too late.
on_header_field_Late ==
  LET late == opens /\ nFields = HEADER_MAX
      n == IF late THEN 1 ELSE IF opens THEN nFields + 1 ELSE nFields
  IN  /\ nFields' = n /\ nValues' = IF late THEN 0 ELSE nValues
      /\ fields' = [fields EXCEPT ![n - 1] = (IF opens THEN {} ELSE @) \cup {count'}]
      /\ IF late THEN flush ELSE UNCHANGED <<jsHeaders, jsUrl, url, flushed>>

\* iotjs_httpparserwrap_on_header_field, for a fragment of the header count'.
on_header_field ==
  LET n == IF overflow THEN 1 ELSE IF opens THEN nFields + 1 ELSE nFields
  IN  /\ nFields' = n /\ nValues' = IF overflow THEN 0 ELSE nValues
      /\ fields' = [fields EXCEPT ![n - 1] = (IF opens THEN {} ELSE @) \cup {count'}]
      /\ IF overflow THEN flush ELSE UNCHANGED <<jsHeaders, jsUrl, url, flushed>>

\* http-parser reports the first fragment of a field; a header after the body is
\* a trailing one.
FieldStart ==
  /\ HeadersMayFollow /\ count < MaxHeaders /\ count' = count + 1
  /\ LET trailer == phase \in {"body", "trailerValue"}
     IN  /\ phase' = IF trailer THEN "trailerField" ELSE "field"
         /\ trailed' = (trailed \/ trailer)
  /\ on_header_field
  /\ UNCHANGED <<msg, first, type, values, incoming>>

\* ... and another one.
FieldGoesOn ==
  /\ phase \in {"field", "trailerField"}
  /\ UNCHANGED httpParser
  /\ on_header_field
  /\ UNCHANGED <<type, values, incoming>>

\* Mutant: the slot of the value is not emptied.
on_header_value_NotEmptied ==
  LET n == IF nFields # nValues THEN nValues + 1 ELSE nValues
  IN  nValues' = n /\ values' = [values EXCEPT ![n - 1] = @ \cup {count}]

\* iotjs_httpparserwrap_on_header_value, for a fragment of the header count.
on_header_value ==
  LET n == IF nFields # nValues THEN nValues + 1 ELSE nValues
  IN  /\ nValues' = n
      /\ values' = [values EXCEPT ![n - 1] =
                      (IF nFields # nValues THEN {} ELSE @) \cup {count}]

\* A fragment of a value, the first or another one.
Value ==
  /\ \/ phase \in {"field", "value"} /\ phase' = "value"
     \/ phase \in {"trailerField", "trailerValue"} /\ phase' = "trailerValue"
  /\ on_header_value
  /\ UNCHANGED <<msg, count, first, trailed, type, nFields, fields, url, flushed, script>>

\* parserOnHeadersComplete, once it has found the headers and the url.
parserOnHeadersComplete(headers, u) ==
  incoming' = [msg |-> msg, from |-> first, to |-> count, headers |-> headers,
               url |-> u, late |-> jsUrl \ {msg} # {}, trailed |-> trailed,
               body |-> {}, complete |-> FALSE]

\* iotjs_httpparserwrap_on_headers_complete.  With a flush the headers and the url
\* are those of _headers, which is emptied, and _url, which is not (parser.url is).
on_headers_complete ==
  /\ InHead /\ HeadersMayFollow /\ phase' = "body"
  /\ LET hs == IF flushed THEN jsHeaders \o make_header ELSE make_header
         u  == IF flushed THEN jsUrl \cup flushed_url ELSE flushed_url
     IN  /\ parserOnHeadersComplete(hs, u)
         /\ IF flushed THEN jsHeaders' = <<>> /\ jsUrl' = u /\ url' = {}
            ELSE UNCHANGED <<jsHeaders, jsUrl, url>>
  /\ nFields' = 0 /\ nValues' = 0
  /\ UNCHANGED <<msg, count, first, trailed, type, fields, values, flushed>>

\* parserOnBody and parserOnMessageComplete: the incoming message gets a fragment
\* of its body, or is complete.
parserOnBody == incoming' = [incoming EXCEPT !.body = @ \cup {msg}]
parserOnMessageComplete == incoming' = [incoming EXCEPT !.complete = TRUE]

\* iotjs_httpparserwrap_on_body
on_body ==
  /\ phase = "body"
  /\ parserOnBody
  /\ UNCHANGED <<httpParser, wrapper, jsHeaders, jsUrl>>

\* iotjs_httpparserwrap_on_message_complete, called by execute() or, for a body
\* that lasts until the end, by finish().
on_message_complete ==
  /\ phase \in {"body", "trailerValue"} /\ phase' = "idle"
  /\ parserOnMessageComplete
  /\ UNCHANGED <<msg, count, first, trailed, wrapper, jsHeaders, jsUrl>>

\* execute() or finish() meets what is not HTTP: the parser is given up.
ParseError == /\ phase # "dead" /\ phase' = "dead"
              /\ UNCHANGED <<msg, count, first, trailed, wrapper, script>>

HNext == on_message_begin \/ on_url \/ FieldStart \/ FieldGoesOn \/ Value
         \/ on_headers_complete \/ on_body \/ on_message_complete \/ ParseError

HSpec == HInit /\ [][HNext]_hvars

-----------------------------------------------------------------------------
(* Properties.                                                             *)

\* The assertions of on_header_field and on_header_value, and the bounds of the
\* arrays: between two fragments the counters tell whether a field or a value
\* came last, and at most HEADER_MAX - 1 slots are in use, as the comment of
\* HEADER_MAX says.
CountersAgree ==
  /\ phase \in {"field", "trailerField"} => nFields = nValues + 1
  /\ phase \in {"value", "trailerValue"} => nFields = nValues
  /\ nFields < HEADER_MAX /\ nValues <= nFields

\* The headers that a message would have to get.
Exactly(from, to) == [i \in 1 .. (to - from) |-> <<{from + i}, {from + i}>>]

\* A message gets its own headers, all of them and in order, whatever their
\* number and however they are cut into fragments, be they flushed or not; also
\* when messages follow each other on the connection, as long as none of them has
\* trailing headers (whose slots would not be emptied).
HeadersExact ==
  ~incoming.trailed => incoming.headers = Exactly(incoming.from, incoming.to)

\* A request gets its own url, unless headers were flushed for an earlier message:
\* _url would still hold the url of that.
UrlExact ==
  type = "request" /\ incoming.msg > 0 /\ ~incoming.late => incoming.url = {incoming.msg}

=============================================================================
