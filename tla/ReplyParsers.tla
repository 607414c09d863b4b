---------------------------- MODULE ReplyParsers ----------------------------
(***************************************************************************)
(* What OnionCtrl (src/src/tor/onion-ctrl.hpp) makes of the text of a      *)
(* reply line: its tokens, the phase of the bootstrap, the value of a      *)
(* variable of the configuration, an event.                                *)
(*                                                                         *)
(* A text is a sequence of symbols: characters, and the words that the     *)
(* code looks for.                                                         *)
(***************************************************************************)
EXTENDS Sequences, Integers, FiniteSets

CONSTANTS
    Ports,      \* the SOCKS ports tor may be configured with
    Tails,      \* what may follow in a reply: sequences of tokens
    Beginnings, \* how a text that is not a reply of tor may begin
    Symbols,    \* the symbols that may follow
    Others,     \* the characters that the code does not look for
    MaxSymbols  \* bound: how many of them

\* White space.
Space == " "

Digits == <<"0", "1", "2", "3", "4", "5", "6", "7", "8", "9">>

Words == {"NOTICE", "BOOTSTRAP", "PROGRESS=", "STATUS_CLIENT", "SocksPort"}

Alphabet ==
    Words \cup {Digits[i] : i \in 1 .. 10} \cup {Space, "="} \cup Others

\* A text without white space that is not empty.
Token == {t \in Seq(Alphabet) : t # <<>> /\ \A i \in DOMAIN t : t[i] # Space}

MaxPort == 65535

ASSUME PortsAssumption == Ports \subseteq 0 .. MaxPort
ASSUME TailsAssumption == \A tail \in Tails : tail \in Seq(Token)
ASSUME BeginningsAssumption == \A beginning \in Beginnings : beginning \in Seq(Alphabet)
ASSUME SymbolsAssumption == Symbols \subseteq Alphabet

IsDigit(sym) == \E d \in 0 .. 9 : sym = Digits[d + 1]

DigitOf(sym) == CHOOSE d \in 0 .. 9 : sym = Digits[d + 1]

\* How many characters a text has: words have six or more.
Size(text) == Len(text) + 5 * Cardinality({i \in DOMAIN text : text[i] \in Words})

\* find() == 0, for a word.
StartsWith(text, word) == text # <<>> /\ Head(text) = word

\* atoi, of digits.
Atoi(text) ==
    LET upto[i \in 0 .. Len(text)] ==
          IF i = 0 THEN 0 ELSE 10 * upto[i - 1] + DigitOf(text[i])
    IN upto[Len(text)]

Answer(status, value) == [status |-> status, value |-> value]
-----------------------------------------------------------------------------
\* push_back of the current token, unless it is empty.
Flush(acc) ==
    IF acc.cur = <<>> THEN acc
    ELSE [tokens |-> Append(acc.tokens, acc.cur), cur |-> <<>>]

\* One character more.
TokenizeNext(acc, c) ==
    IF c = Space THEN Flush(acc)
    ELSE [tokens |-> acc.tokens, cur |-> Append(acc.cur, c)]

\* What tokenize has after the last character.
Tokenized(text) ==
    LET upto[i \in 0 .. Len(text)] ==
          IF i = 0 THEN [tokens |-> <<>>, cur |-> <<>>]
          ELSE TokenizeNext(upto[i - 1], text[i])
    IN upto[Len(text)]

\* tokenize that forgets the token at the end of the text.
TokenizeOpen(text) == Tokenized(text).tokens

\* tokenize.
Tokenize(text) == Flush(Tokenized(text)).tokens

\* Digits of which there are at most so many, as a number.
ParseDigits(text, most) ==
    IF Size(text) > most THEN Answer("TOO_MANY_DIGITS", 0)
    ELSE IF \E i \in DOMAIN text : ~IsDigit(text[i]) THEN Answer("NOT_A_DIGIT", 0)
    ELSE Answer("OK", Atoi(text))

\* parse_bootstrap_progress.  With an error the phase is left at 0.
ParseBootstrapProgress(text) ==
    LET vec == Tokenize(text) IN
    IF Len(vec) < 3 THEN Answer("EXPECTED_MORE_TOKENS", 0)
    ELSE IF vec[1] # <<"NOTICE">> THEN Answer("EXPECTED_NOTICE_TOKEN", 0)
    ELSE IF vec[2] # <<"BOOTSTRAP">> THEN Answer("EXPECTED_BOOTSTRAP_TOKEN", 0)
    ELSE IF ~StartsWith(vec[3], "PROGRESS=") THEN Answer("EXPECTED_PROGRESS_KEY", 0)
    ELSE ParseDigits(Tail(vec[3]), 3)

\* getconf_int of a line: the name of the variable alone means its default
\* value; whatever character follows the name is skipped, if only the first of
\* a word.
GetconfInt(status, type, text, name, default) ==
    IF status # "OK" THEN Answer(status, 0)
    ELSE IF type # Space THEN Answer("UNEXPECTED_REPLY", 0)
    ELSE IF text = <<name>> THEN Answer("OK", default)
    ELSE IF ~StartsWith(text, name) THEN Answer("EXPECTED_VAR_NAME_KEY", 0)
    ELSE IF text[2] \in Words
      THEN Answer(IF SubSeq(text, 2, Len(text)) = <<"NOTICE">> THEN "NOT_A_DIGIT"
                  ELSE "TOO_MANY_DIGITS", 0)
    ELSE ParseDigits(SubSeq(text, 3, Len(text)), 5)

Client(status, severity, action, args) ==
    [status |-> status, severity |-> severity, action |-> action, args |-> args]

\* setevents_client_status: the severity, the action and the arguments.
ClientStatus(status, text) ==
    LET vec == Tokenize(text)
        fail(why) == Client(why, <<>>, <<>>, <<>>)
    IN IF status # "ASYNC" THEN fail(status)
       ELSE IF Len(vec) < 3 THEN fail("EXPECTED_MORE_TOKENS")
       ELSE IF vec[1] # <<"STATUS_CLIENT">> THEN fail("EXPECTED_STATUS_CLIENT_TOKEN")
       ELSE Client(status, vec[2], vec[3], SubSeq(vec, 4, Len(vec)))
-----------------------------------------------------------------------------
(***************************************************************************)
(* What tor writes, which is not part of the repository.                   *)
(***************************************************************************)

LastDigit(n) == Digits[(n % 10) + 1]

\* A number below 100000, in decimal digits.
Decimal(n) ==
    IF n < 10 THEN <<LastDigit(n)>>
    ELSE IF n < 100 THEN <<LastDigit(n \div 10), LastDigit(n)>>
    ELSE IF n < 1000 THEN <<LastDigit(n \div 100), LastDigit(n \div 10), LastDigit(n)>>
    ELSE IF n < 10000
      THEN <<LastDigit(n \div 1000), LastDigit(n \div 100), LastDigit(n \div 10),
             LastDigit(n)>>
    ELSE <<LastDigit(n \div 10000), LastDigit(n \div 1000), LastDigit(n \div 100),
           LastDigit(n \div 10), LastDigit(n)>>

\* Tokens with so many white spaces before each of them.
Spaced(tokens, spaces) ==
    LET gap == [i \in 1 .. spaces |-> Space]
        upto[i \in 0 .. Len(tokens)] ==
          IF i = 0 THEN <<>> ELSE upto[i - 1] \o gap \o tokens[i]
    IN upto[Len(tokens)]

BootstrapPhase(n, tail) ==
    <<<<"NOTICE">>, <<"BOOTSTRAP">>, <<"PROGRESS=">> \o Decimal(n)>> \o tail

ClientEvent(severity, action, tail) ==
    <<<<"STATUS_CLIENT">>, severity, action>> \o tail

VARIABLES
    text,  \* the text that is parsed
    means  \* what tor meant by it

replyVars == <<text, means>>

Meaning(what, n, tail) == [what |-> what, n |-> n, tail |-> tail]

NoMeaning == Meaning("nothing", 0, <<>>)

\* tor writes a reply, with one white space or two between the words of it.
TorWrites ==
    /\ text = <<>>
    /\ \E tail \in Tails, spaces \in {1, 2} :
         \/ \E n \in 0 .. 100 :
              /\ text' = Spaced(BootstrapPhase(n, tail), spaces)
              /\ means' = Meaning("phase", n, tail)
         \/ \E n \in Ports :
              /\ text' = <<"SocksPort", "=">> \o Decimal(n)
              /\ means' = Meaning("port", n, <<>>)
         \/ /\ text' = Spaced(ClientEvent(<<"NOTICE">>, <<"BOOTSTRAP">>, tail), spaces)
            /\ means' = Meaning("event", 0, tail)

\* A text of which tor has no part begins, and grows.
TextBegins ==
    /\ text = <<>>
    /\ text' \in Beginnings
    /\ means' = Meaning("nothing", Len(text'), <<>>)

TextGrows ==
    /\ means.what = "nothing"
    /\ Len(text) < means.n + MaxSymbols
    /\ \E sym \in Symbols : text' = Append(text, sym)
    /\ UNCHANGED means

ReplyInit == text = <<>> /\ means = NoMeaning

ReplyNext == TorWrites \/ TextBegins \/ TextGrows

ReplySpec == ReplyInit /\ [][ReplyNext]_replyVars
-----------------------------------------------------------------------------
\* Where there is no symbol of a token: white space, and either end.
Blank(i) == i \notin DOMAIN text \/ text[i] = Space

\* Where the runs of symbols between white spaces begin and end.
Runs ==
    {r \in (DOMAIN text) \X (DOMAIN text) :
       /\ r[1] <= r[2] /\ \A i \in r[1] .. r[2] : ~Blank(i)
       /\ Blank(r[1] - 1) /\ Blank(r[2] + 1)}

\* The tokens of any text are its runs of symbols, in order; so what tor writes
\* is read as what it means, wherever it puts white space and whatever follows:
\* each phase, each port, each event with its arguments.  And of all other texts
\* none is taken for the end of the bootstrap but one that says 100
\* (onion-ctrl.hpp:364-394, 422-460, 510-534, 599-617).
RepliesRead ==
    LET vec == Tokenize(text)
        phase == ParseBootstrapProgress(text)
        port == GetconfInt("OK", Space, text, "SocksPort", 9050)
        event == ClientStatus("ASYNC", text)
        runs == Runs
    IN /\ Len(vec) = Cardinality(runs)
       /\ \A run \in runs :
            vec[Cardinality({r \in runs : r[1] <= run[1]})] =
              SubSeq(text, run[1], run[2])
       /\ means.what = "phase" => phase = Answer("OK", means.n)
       /\ means.what = "port" => port = Answer("OK", means.n)
       /\ means.what = "event" =>
            event = Client("ASYNC", <<"NOTICE">>, <<"BOOTSTRAP">>, means.tail)
       /\ phase = Answer("OK", 100) =>
            /\ Len(vec) >= 3
            /\ SubSeq(vec, 1, 3) =
                 <<<<"NOTICE">>, <<"BOOTSTRAP">>, <<"PROGRESS=", "1", "0", "0">>>>
=============================================================================
