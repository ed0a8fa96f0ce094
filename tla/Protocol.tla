------------------------------ MODULE Protocol ------------------------------
(***************************************************************************)
(* The packets of run_tcp_server.py: what the parsers make of a body, which *)
(* handler message_dispatcher and general_dispatcher choose, and whether   *)
(* that handler answers, leaves the error packet to handle_client, or      *)
(* raises, which closes the connection.                                    *)
(*                                                                         *)
(* A body is a sequence of bytes: version, type, payload.  Of a payload    *)
(* only matters what the code tells apart: its first byte stands for it.   *)
(***************************************************************************)
EXTENDS Naturals, Sequences

\* struct.pack('>i', length)[1:], and back, for lengths that fit in three bytes.
MaxLength == 16777216
Header(n) == <<n \div 65536 % 256, n \div 256 % 256, n % 256>>
Declared(h) == h[1] * 65536 + h[2] * 256 + h[3]

(* whole: what the handler expects; lacking: a JSON object without what the *)
(* handler looks for; raising: values on which the handler or the database  *)
(* raises; contacts, weather and apps: the subtypes of a general message.   *)
Decoded == <<"whole", "lacking", "raising", "contacts", "weather", "apps">>
Subtypes == {"contacts", "weather", "apps"}
Unreadable == {"empty", "garbled"}
General == 123

WellFormed(body) == Len(body) >= 2
TypeOf(body) == body[2]
ContentOf(body) ==
    IF Len(body) = 2 THEN "empty"
    ELSE IF body[3] \notin DOMAIN Decoded THEN "garbled"
    ELSE IF Decoded[body[3]] \in Subtypes /\ TypeOf(body) # General THEN "lacking"
    ELSE Decoded[body[3]]

(* A handler answers with a packet of type `code' for the contents in      *)
(* `answers' and raises for those in `raises', if there is a session; with *)
(* or without one for those in `always' and `fails'.  The status handler   *)
(* logs the udid of the session before it asks for one.                    *)
LoginHandler ==
    [code |-> 20, answers |-> {}, raises |-> {}, always |-> {"whole"},
     fails |-> {"lacking", "raising"} \cup Unreadable]
\* Faulty variant: the heartbeat is answered before a login.
PingAlways ==
    [code |-> 2, answers |-> {}, raises |-> {"raising"},
     always |-> {"whole", "lacking"}, fails |-> {}]

PingHandler ==
    [code |-> 2, answers |-> {"whole", "lacking"}, raises |-> {"raising"},
     always |-> {}, fails |-> {}]
LocationHandler ==
    [code |-> 11, answers |-> {"whole"}, raises |-> {"raising"},
     always |-> {}, fails |-> {}]
StatusHandler ==
    [code |-> 45, answers |-> {"whole", "lacking"}, raises |-> {"raising"} \cup Unreadable,
     always |-> {}, fails |-> {"anonymous"}]
CallsHandler ==
    [code |-> 52, answers |-> {"whole"}, raises |-> {"raising"} \cup Unreadable,
     always |-> {}, fails |-> {}]
SmsHandler ==
    [code |-> 0, answers |-> {}, raises |-> {"raising"} \cup Unreadable,
     always |-> {}, fails |-> {}]
ChatHandler ==
    [code |-> 3, answers |-> {"whole"}, raises |-> {"raising"}, always |-> {}, fails |-> {}]

\* datetime.datetime is no attribute of the class the module imports: the weather
\* handler raises, and handle_general_message leaves it at an error packet.
WeatherAnswers == {}
AppsAnswers == {"apps"}
ContactsAnswers == {"contacts"}
GeneralHandler ==
    [code |-> General, answers |-> WeatherAnswers \cup AppsAnswers \cup ContactsAnswers,
     raises |-> {}, always |-> {}, fails |-> {"raising"}]

\* parse_teemo_zlib_packet names the payload that it could not inflate.
Inflated(handler) == [handler EXCEPT !.fails = {"garbled"}]

message_dispatcher ==
    [t \in {1, 11, 20, 45, 52, 57, 122, 123, 125} |->
       CASE t = 1   -> PingHandler
         [] t = 11  -> LocationHandler
         [] t = 20  -> LoginHandler
         [] t = 45  -> StatusHandler
         [] t = 52  -> CallsHandler
         [] t = 57  -> SmsHandler
         [] t = 122 -> ChatHandler
         [] t = 123 -> GeneralHandler
         [] t = 125 -> Inflated(LocationHandler)]

Dispatched(body) == WellFormed(body) /\ TypeOf(body) \in DOMAIN message_dispatcher

Raises(body, session) ==
    LET h == message_dispatcher[TypeOf(body)]
        c == ContentOf(body)
    IN  \/ c \in h.fails
        \/ session /\ c \in h.raises
        \/ ~session /\ "anonymous" \in h.fails

\* The reply's type; handle_client sends the error packet, of type 0, for None.
ReplyTo(body, session) ==
    LET h == message_dispatcher[TypeOf(body)]
        c == ContentOf(body)
    IN  IF c \in h.always \/ (session /\ c \in h.answers) THEN h.code ELSE 0

LogsIn(body) == TypeOf(body) = 20
=============================================================================
