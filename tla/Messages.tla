------------------------------ MODULE Messages ------------------------------
(***************************************************************************)
(* The text of a request on its way: json.dumps() in the client,           *)
(* Protocol::parseClientMessage in the server, the query that looks up a   *)
(* user, Protocol::buildResponse and json.loads() in the client again.     *)
(* All of it is computed from the request alone, so this module has no     *)
(* variables: module Protocol states what holds for every request.         *)
(*                                                                         *)
(* A text is a sequence of characters, of which those that the code tells  *)
(* apart are kept: quotes, the backslash, the line feed and the letter     *)
(* that stands for it, brackets, colon and blank.  A key is one character, *)
(* and so are the four digits of an escape.                                *)
(***************************************************************************)
EXTENDS Integers, Sequences, SequencesExt, FiniteSets, FiniteSetsExt

CONSTANTS
  Chars,   \* the characters that a user may type
  Ids,     \* the request ids that a client may choose
  MaxName, \* the limit of a username and a password (bounds the model)
  MaxText  \* the limit of a chat text (bounds the model)

\* A request id that ends like this makes the server take it for the key data.
LooksLikeData(id) ==
  /\ Len(id) >= 1 /\ id[Len(id)] = "data"
  /\ Len(id) > 1 => id[Len(id) - 1] = "\""

ASSUME MessagesAssumption ==
  /\ \A id \in Ids : id \in Seq(Chars) /\ ~LooksLikeData(id)
  /\ MaxName \in Nat /\ MaxText \in Nat

Q    == "\""
BS   == "\\"
LF   == "line feed"
Wide == "a character outside ASCII"
None == <<"nothing">>

\* Escapes that both sides know, by the letter after the backslash.
Escapes == [c \in {Q, BS, "n"} |-> IF c = "n" THEN LF ELSE c]

Texts(n) == SeqOf(Chars, n)

\* One character more than the limits allow is typed, too.
Requests ==
  [type : {"login_req"}, id : Ids, username : Texts(MaxName + 1), password : Texts(MaxName)]
    \cup [type : {"chat_req"}, id : Ids, text : Texts(MaxText + 1)]
-----------------------------------------------------------------------------
(* The client writes.                                                      *)

\* json.dumps() of a string.
DumpChar(c) ==
  CASE c \in {Q, BS} -> <<BS, c>>
    [] c = LF        -> <<BS, "n">>
    [] c = Wide      -> <<BS, "u", "4 digits">>
    [] OTHER         -> <<c>>

Dumps(s) == <<Q>> \o FlattenSeq([i \in 1..Len(s) |-> DumpChar(s[i])]) \o <<Q>>

Member(key, literal) == <<Q, key, Q, ":", " ">> \o literal

PackMessage(r) ==
  <<"{">> \o Member("type", <<Q, r.type, Q, ",", " ">>)
    \o Member("request_id", Dumps(r.id)) \o <<",", " ">>
    \o Member("timestamp", <<"1", ",", " ">>)
    \o Member("data", <<"{">>)
    \o (IF r.type = "login_req"
        THEN Member("username", Dumps(r.username)) \o <<",", " ">> \o
             Member("password", Dumps(r.password))
        ELSE Member("text", Dumps(r.text)))
    \o <<"}", "}">>
-----------------------------------------------------------------------------
(* The server reads.                                                       *)

\* The first of some positions, or 0.
First(at) == IF at = {} THEN 0 ELSE Min(at)

\* A loop over a text: what it has written, and where it reads next.
Start == [out |-> <<>>, next |-> 1]

\* Faulty variant: a backslash that is escaped itself is not recognised.
UnescapeButBackslash(s, i, b) ==
  CASE i < b.next -> b
    [] i >= b.next /\ s[i] = BS /\ i < Len(s) /\ s[i + 1] \in {Q, "n"} ->
         [out |-> Append(b.out, Escapes[s[i + 1]]), next |-> i + 2]
    [] OTHER -> [out |-> Append(b.out, s[i]), next |-> i + 1]

\* unescapeJson() at position i: an escape that it does not know stays as it is.
UnescapeAt(s, i, b) ==
  CASE i < b.next -> b
    [] i >= b.next /\ s[i] = BS /\ i < Len(s) /\ s[i + 1] \in DOMAIN Escapes ->
         [out |-> Append(b.out, Escapes[s[i + 1]]), next |-> i + 2]
    [] OTHER -> [out |-> Append(b.out, s[i]), next |-> i + 1]

Unescape(s) ==
  LET at[i \in 0..Len(s)] == IF i = 0 THEN Start ELSE UnescapeAt(s, i, at[i - 1])
  IN  at[Len(s)].out

\* Where the value of the key starts: after its first occurrence as a string,
\* whatever that is, the next colon, and blanks.
ValueAt(s, key) ==
  LET token == First({i \in 1..(Len(s) - 2) : SubSeq(s, i, i + 2) = <<Q, key, Q>>})
      colon == IF token = 0 THEN 0 ELSE First({i \in (token + 3)..Len(s) : s[i] = ":"})
  IN  IF colon = 0 THEN 0 ELSE First({i \in (colon + 1)..Len(s) : s[i] # " "})

\* Faulty variant: the first quote ends the string.
UnquotedEnd(s, n) == First({i \in n..Len(s) : s[i] = Q})

\* The quote that ends the string whose first character is at n.
StringEnd(s, n) ==
  LET escaped[i \in n..Len(s)] == i > n /\ s[i - 1] = BS /\ ~escaped[i - 1]
  IN  First({i \in n..Len(s) : s[i] = Q /\ ~escaped[i]})

ExtractStringValue(s, key) ==
  LET v   == ValueAt(s, key)
      end == IF v = 0 \/ s[v] # Q THEN 0 ELSE StringEnd(s, v + 1)
  IN  IF end = 0 THEN None ELSE Unescape(SubSeq(s, v + 1, end - 1))

\* Brackets count outside strings only.
Outside == [depth |-> 0, string |-> FALSE, escaped |-> FALSE]

BracketAt(c, b) ==
  IF b.string
  THEN [b EXCEPT !.escaped = ~@ /\ c = BS,
                 !.string  = b.escaped \/ c # Q]
  ELSE [b EXCEPT !.string = c = Q,
                 !.depth  = CASE c = "{" -> @ + 1
                              [] c = "}" -> @ - 1
                              [] OTHER   -> @]

ExtractObjectValue(s, key) ==
  LET v == ValueAt(s, key)
      at[i \in (v - 1)..Len(s)] == IF i = v - 1 THEN Outside ELSE BracketAt(s[i], at[i - 1])
      end == First({i \in v..Len(s) : s[i] = "}" /\ ~at[i].string /\ at[i].depth = 0})
  IN  IF v = 0 \/ s[v] # "{" \/ end = 0 THEN None ELSE SubSeq(s, v, end)

\* parseClientMessage(), and the two validations of the chat service.
Valid(s, limit) == s \notin {None, <<>>} /\ Len(s) <= limit

Parse(s) ==
  LET type == ExtractStringValue(s, "type")
      id   == ExtractStringValue(s, "request_id")
      data == ExtractObjectValue(s, "data")
      user == ExtractStringValue(data, "username")
      pass == ExtractStringValue(data, "password")
      text == ExtractStringValue(data, "text")
  IN  CASE data # None /\ type = <<"login_req">> /\
             Valid(user, MaxName) /\ Valid(pass, MaxName) ->
             [type |-> "login_req", id |-> id, username |-> user, password |-> pass]
        [] data # None /\ type = <<"chat_req">> /\ Valid(text, MaxText) ->
             [type |-> "chat_req", id |-> id, text |-> text]
        [] OTHER -> [type |-> "refused", id |-> id]

SqlEscape(s) ==
  FlattenSeq([i \in 1..Len(s) |-> IF s[i] \in {BS, "'", Q} THEN <<BS, s[i]>> ELSE <<s[i]>>])
-----------------------------------------------------------------------------
(* The server answers: the string fields of login_resp, chat_broadcast or  *)
(* error that come from a client.                                          *)

EscapeChar(c) ==
  CASE c \in {BS, Q} -> <<BS, c>>
    [] c = LF        -> <<BS, "n">>
    [] OTHER         -> <<c>>

EscapeJson(s) == FlattenSeq([i \in 1..Len(s) |-> EscapeChar(s[i])])

Answer(m) ==
  CASE m.type = "login_req" -> [request_id |-> EscapeJson(m.id),
                                username   |-> EscapeJson(m.username)]
    [] m.type = "chat_req"  -> [text |-> EscapeJson(m.text)]
    [] OTHER                -> [request_id |-> EscapeJson(m.id)]
-----------------------------------------------------------------------------
(* The client reads, and MySQL.                                            *)

\* A string literal between quotes is read: every backslash takes the next
\* character with it, and a bare quote or control character is an error.
ReadAt(s, bare, meaning, i, b) ==
  CASE i < b.next -> b
    [] i >= b.next /\ s[i] = BS /\ i < Len(s) /\ s[i + 1] \in DOMAIN meaning ->
         [out |-> Append(b.out, meaning[s[i + 1]]), next |-> i + 2]
    [] i >= b.next /\ s[i] # BS /\ s[i] \notin bare ->
         [out |-> Append(b.out, s[i]), next |-> i + 1]
    [] OTHER -> [out |-> None, next |-> Len(s) + 1]

ReadLiteral(s, bare, meaning) ==
  LET at[i \in 0..Len(s)] == IF i = 0 THEN Start ELSE ReadAt(s, bare, meaning, i, at[i - 1])
  IN  at[Len(s)].out

Loads(s) == ReadLiteral(s, {Q, LF}, Escapes)
SqlReads(s) ==
  ReadLiteral(s, {"'"}, [c \in DOMAIN Escapes \cup {"'"} |-> IF c = "n" THEN LF ELSE c])
-----------------------------------------------------------------------------
(* What is expected of every request.                                      *)

\* What the server takes a typed text for: an escape of the form \uXXXX is
\* unknown to it and stays as it is.
Spelt(s) ==
  FlattenSeq([i \in 1..Len(s) |-> IF s[i] = Wide THEN DumpChar(Wide) ELSE <<s[i]>>])

\* What has to reach the server.  The limits apply to the escaped spelling.
Understood(r) ==
  LET user == Spelt(r.username)
      pass == Spelt(r.password)
      text == Spelt(r.text)
  IN  CASE r.type = "login_req" /\ Valid(user, MaxName) /\ Valid(pass, MaxName) ->
             [type |-> "login_req", id |-> Spelt(r.id), username |-> user, password |-> pass]
        [] r.type = "chat_req" /\ Valid(text, MaxText) ->
             [type |-> "chat_req", id |-> Spelt(r.id), text |-> text]
        [] OTHER -> [type |-> "refused", id |-> Spelt(r.id)]

EachUnderstood ==
  /\ \A r \in Requests : Parse(PackMessage(r)) = Understood(r)
  /\ \A name \in Texts(MaxText) : SqlReads(SqlEscape(name)) = name

EachArrives ==
  \A r \in Requests :
    LET shown == Answer(Parse(PackMessage(r)))
    IN  \A f \in DOMAIN shown :
          Loads(shown[f]) = Spelt(CASE f = "request_id" -> r.id
                                    [] f = "username"   -> r.username
                                    [] f = "text"       -> r.text)
=============================================================================
