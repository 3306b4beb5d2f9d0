---------------------------- MODULE RequestParser ----------------------------
(***************************************************************************)
(* The HTTP request parser of osrm-routed: a state machine that consumes   *)
(* one character at a time, across as many reads as the request takes.     *)
(* A character stands for its class, and a word that matters for what the  *)
(* parser collects ("Connection", "gzip", ...) is one letter.              *)
(***************************************************************************)
EXTENDS Integers, Sequences, Functions

VARIABLES text,                  \* what has been consumed
          state, current_header, selected_compression,   \* the parser
          current_request,       \* what it has collected of the request
          status                 \* the RequestStatus of the last consume()

parserVars == <<text, state, current_header, selected_compression, current_request, status>>

Words == {"H", "T", "P", "word", "Connection", "Accept-Encoding", "Referer", "User-Agent",
          "close", "gzip", "deflate"}
Blank == "SP"
Tab == "TAB"
CR == "CR"
LF == "LF"

(* The classes: letters, digits, two punctuation marks the parser looks for *)
(* and one special mark it does not, blanks, control characters, and        *)
(* characters outside ASCII.                                                *)
Chars == Words \cup {"digit", ".", "/", ":", "special", Blank, Tab, CR, LF, "control", "foreign"}

is_char(c) == c # "foreign"
is_CTL(c) == c \in {Tab, CR, LF, "control"}
is_special(c) == c \in {"/", ":", "special", Blank, Tab}
is_digit(c) == c = "digit"

NotToken(c) == ~is_char(c) \/ is_CTL(c) \/ is_special(c)

(* No transition leads to the states uri_start and header_lws of the enum,  *)
(* so their cases never run.                                                *)
NoHeader == [name |-> <<>>, value |-> <<>>]

ParserInit == /\ text = <<>>
              /\ state = "method_start"
              /\ current_header = NoHeader
              /\ selected_compression = "no_compression"
              /\ current_request = [uri |-> <<>>, referrer |-> <<>>, agent |-> <<>>,
                                    connection |-> <<>>]
              /\ status = "indeterminate"

-----------------------------------------------------------------------------
(* The parts of consume(): its result, and what it assigns *)

Reject == /\ status' = "invalid"
          /\ UNCHANGED <<state, current_header, selected_compression, current_request>>

Goto(s) == /\ state' = s
           /\ status' = "indeterminate"

Keep == UNCHANGED <<current_header, selected_compression, current_request>>

Method(c) ==
    \/ /\ state = "method_start"
       /\ IF NotToken(c) THEN Reject ELSE Goto("method") /\ Keep
    \/ /\ state = "method"
       /\ CASE c = Blank -> Goto("uri") /\ Keep
            [] c # Blank /\ NotToken(c) -> Reject
            [] OTHER -> Goto("method") /\ Keep

PushUri(c) == /\ current_request' = [current_request EXCEPT !.uri = Append(@, c)]
              /\ UNCHANGED <<current_header, selected_compression>>

Uri(c) ==
    /\ state = "uri"
    /\ CASE c = Blank -> Goto("http_version_h") /\ Keep
         [] is_CTL(c) -> Reject
         [] OTHER -> Goto("uri") /\ PushUri(c)

(* The states that wait for one character, with it and the next state *)
Expected == [http_version_h |-> <<"H", "http_version_t_1">>,
             http_version_t_1 |-> <<"T", "http_version_t_2">>,
             http_version_t_2 |-> <<"T", "http_version_p">>,
             http_version_p |-> <<"P", "http_version_slash">>,
             http_version_slash |-> <<"/", "http_version_major_start">>,
             http_version_major_start |-> <<"digit", "http_version_major">>,
             http_version_minor_start |-> <<"digit", "http_version_minor">>,
             expecting_newline_1 |-> <<LF, "header_line_start">>,
             expecting_newline_2 |-> <<LF, "header_line_start">>]

Literal(c) ==
    /\ state \in DOMAIN Expected
    /\ IF c = Expected[state][1] THEN Goto(Expected[state][2]) /\ Keep ELSE Reject

(* The digits of a version number, up to the character that ends it *)
Digits(c, s, end, next) ==
    /\ state = s
    /\ CASE c = end -> Goto(next) /\ Keep
         [] is_digit(c) -> Goto(s) /\ Keep
         [] OTHER -> Reject

Version(c) == \/ Digits(c, "http_version_major", ".", "http_version_minor_start")
              \/ Digits(c, "http_version_minor", CR, "expecting_newline_1")

(* The header that ended with the last line takes effect when the first     *)
(* character of the next line comes, before that character is judged.       *)
Compression == LET value == Range(current_header.value)
               IN  CASE current_header.name # <<"Accept-Encoding">> -> selected_compression
                     [] "gzip" \in value -> "gzip_rfc1952"
                     [] "deflate" \in value -> "deflate_rfc1951"
                     [] OTHER -> selected_compression

Field(name, old) == IF current_header.name = <<name>> THEN current_header.value ELSE old

TakeHeader == /\ selected_compression' = Compression
              /\ current_request' =
                     [current_request EXCEPT !.referrer = Field("Referer", @),
                                             !.agent = Field("User-Agent", @),
                                             !.connection = Field("Connection", @)]

HeaderLineStartEarly(c) ==
    /\ state = "header_line_start"
    /\ CASE c = CR -> Goto("expecting_newline_3") /\ Keep
         [] c # CR /\ NotToken(c) -> Reject
         [] OTHER -> /\ TakeHeader
                     /\ Goto("header_name")
                     /\ current_header' = [name |-> <<c>>, value |-> <<>>]

HeaderLineStart(c) ==
    /\ state = "header_line_start"
    /\ TakeHeader
    /\ CASE c = CR -> Goto("expecting_newline_3") /\ UNCHANGED current_header
         [] c # CR /\ NotToken(c) -> status' = "invalid" /\ UNCHANGED <<state, current_header>>
         [] OTHER -> /\ Goto("header_name")
                     /\ current_header' = [name |-> <<c>>, value |-> <<>>]

Push(field, c) == /\ current_header' = [current_header EXCEPT ![field] = Append(@, c)]
                  /\ UNCHANGED <<selected_compression, current_request>>

HeaderName(c) ==
    /\ state = "header_name"
    /\ CASE c = ":" -> Goto("header_value") /\ Keep
         [] c # ":" /\ NotToken(c) -> Reject
         [] OTHER -> Goto("header_name") /\ Push("name", c)

(* A value loses every blank, the ones between its words too. *)
HeaderValue(c) ==
    /\ state = "header_value"
    /\ CASE c = Blank -> Goto("header_value") /\ Keep
         [] c = CR -> Goto("expecting_newline_2") /\ Keep
         [] c # CR /\ is_CTL(c) -> Reject
         [] OTHER -> Goto("header_value") /\ Push("value", c)

LastNewline(c) ==
    /\ state = "expecting_newline_3"
    /\ status' = IF c = LF THEN "valid" ELSE "invalid"
    /\ UNCHANGED <<state, current_header, selected_compression, current_request>>

(* consume(); parse() calls it until it returns something else than         *)
(* indeterminate.                                                           *)
consume(c) ==
    /\ status = "indeterminate"
    /\ text' = Append(text, c)
    /\ \/ Method(c) \/ Uri(c) \/ Literal(c) \/ Version(c) \/ HeaderLineStart(c)
       \/ HeaderName(c) \/ HeaderValue(c) \/ LastNewline(c)

-----------------------------------------------------------------------------
(* What a request is, said of the text as a whole *)

LineEnds(t) == {i \in 1 .. Len(t) - 1 : t[i] = CR /\ t[i + 1] = LF}
Before(t, e) == {i \in LineEnds(t) : i < e}
LineStart(t, e) == IF Before(t, e) = {} THEN 1
                   ELSE 2 + CHOOSE i \in Before(t, e) : \A j \in Before(t, e) : j <= i
Line(t, e) == SubSeq(t, LineStart(t, e), e - 1)

IsToken(s) == s # <<>> /\ \A i \in DOMAIN s : ~NotToken(s[i])
IsPlain(s) == \A i \in DOMAIN s : ~is_CTL(s[i])
IsNumber(s) == s # <<>> /\ \A i \in DOMAIN s : is_digit(s[i])

IsVersion(s) == /\ SubSeq(s, 1, 5) = <<"H", "T", "T", "P", "/">>
                /\ \E dot \in 6 .. Len(s) : /\ s[dot] = "."
                                            /\ IsNumber(SubSeq(s, 6, dot - 1))
                                            /\ IsNumber(SubSeq(s, dot + 1, Len(s)))

(* The blanks that set the URI of a request line off *)
Blanks(l) == {i \in DOMAIN l : l[i] = Blank}
IsRequestLine(l) ==
    \E i, j \in Blanks(l) : /\ i < j /\ Blanks(l) = {i, j}
                            /\ IsToken(SubSeq(l, 1, i - 1))
                            /\ IsPlain(SubSeq(l, i + 1, j - 1))
                            /\ IsVersion(SubSeq(l, j + 1, Len(l)))
UriOf(l) == LET i == CHOOSE i \in Blanks(l) : \A j \in Blanks(l) : i <= j
                j == CHOOSE j \in Blanks(l) : j # i
            IN  SubSeq(l, i + 1, j - 1)

Colon(l) == CHOOSE i \in DOMAIN l : l[i] = ":" /\ \A j \in 1 .. i - 1 : l[j] # ":"
NameOf(l) == SubSeq(l, 1, Colon(l) - 1)
ValueOf(l) == SelectSeq(SubSeq(l, Colon(l) + 1, Len(l)), LAMBDA c : c # Blank)
IsHeaderLine(l) == /\ \E i \in DOMAIN l : l[i] = ":"
                   /\ IsToken(NameOf(l))
                   /\ IsPlain(ValueOf(l))

HeaderEnds(t) == {e \in LineEnds(t) : Before(t, e) # {} /\ e # Len(t) - 1}

(* A request line, header lines and an empty line, each ended by CR LF *)
IsRequest(t) ==
    /\ Len(t) - 1 \in LineEnds(t)
    /\ \A i \in DOMAIN t : /\ t[i] = CR => i \in LineEnds(t)
                           /\ t[i] = LF => i - 1 \in LineEnds(t)
    /\ \E e \in LineEnds(t) : Before(t, e) = {} /\ IsRequestLine(Line(t, e))
    /\ Before(t, Len(t) - 1) # {} /\ Line(t, Len(t) - 1) = <<>>
    /\ \A e \in HeaderEnds(t) : IsHeaderLine(Line(t, e))

(* The value of the last header of a name, with its blanks left out *)
LastField(t, name) ==
    LET ends == {e \in HeaderEnds(t) : NameOf(Line(t, e)) = <<name>>}
    IN  IF ends = {} THEN <<>>
        ELSE ValueOf(Line(t, CHOOSE e \in ends : \A d \in ends : d <= e))

(* The last Accept-Encoding header that names a compression decides. *)
CompressionOf(t) ==
    LET named(e) == Range(ValueOf(Line(t, e))) \cap {"gzip", "deflate"}
        ends == {e \in HeaderEnds(t) : NameOf(Line(t, e)) = <<"Accept-Encoding">> /\ named(e) # {}}
    IN  IF ends = {} THEN "no_compression"
        ELSE IF "gzip" \in named(CHOOSE e \in ends : \A d \in ends : d <= e)
             THEN "gzip_rfc1952" ELSE "deflate_rfc1951"

-----------------------------------------------------------------------------
(* consume() answers valid for the text of a request, at its last character *)
(* and never before or otherwise.  Then the URI is what stands between the  *)
(* two blanks of its first line, every field is the last header of its      *)
(* name, and the compression is the one its headers ask for: the last       *)
(* header line too has taken effect when the empty line comes (case         *)
(* header_line_start).                                                      *)
ParsedAsSent ==
    /\ status = "valid" <=> IsRequest(text)
    /\ status = "valid" =>
        /\ \E e \in LineEnds(text) :
               Before(text, e) = {} /\ current_request.uri = UriOf(Line(text, e))
        /\ current_request.connection = LastField(text, "Connection")
        /\ current_request.referrer = LastField(text, "Referer")
        /\ current_request.agent = LastField(text, "User-Agent")
        /\ selected_compression = CompressionOf(text)
=============================================================================
