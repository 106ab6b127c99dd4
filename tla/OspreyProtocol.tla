--------------------------- MODULE OspreyProtocol ---------------------------
(***************************************************************************)
(* The Osprey websocket protocol's codec, src/osprey_ws_protocol.cpp and   *)
(* include/osprey_ws_protocol.hpp: messages are written as JSON inside a   *)
(* msgpack map, and MessageReader reads a frame back.  OnMessage of        *)
(* JobConnection gives every frame a new reader, whose m_CurrMessageType   *)
(* has no initial value: until Parse assigns it, it is any type.           *)
(*                                                                         *)
(* A JSON value is a string: those that begin with "#" stand for values    *)
(* of another JSON type.  A document is its fields, or not an object.      *)
(***************************************************************************)
EXTENDS Naturals, Sequences

CONSTANTS
    Text,      \* the strings a job id, a description or a metadata field may hold
    Bytes      \* the payloads of a Data message

ASSUME ProtocolAssumption ==
    /\ \A t \in Text : t \in STRING
    /\ "" \in Text
    /\ "" \in Bytes

VARIABLES
    frame,     \* the frame received last
    type,      \* m_CurrMessageType
    json,      \* m_Json
    payload,   \* m_Payload
    result     \* what Parse returned: "true", "false", or "throws"

reader == <<type, json, payload>>
vars == <<frame, reader, result>>

(***************************************************************************)
(* Messages and JSON documents.                                            *)
(***************************************************************************)
MessageType == {"Start", "Ready", "Data", "Continue", "End", "Unknown"}

StartMessage == [type : {"Start"}, jobId : Text, info : {"config"}]
ReadyMessage == [type : {"Ready"}, isReady : BOOLEAN, description : Text]
DataMessage == [type : {"Data"}, metadata : Text, payload : Bytes]
ContinueMessage == [type : {"Continue"}]
EndMessage == [type : {"End"}]
Message == StartMessage \union ReadyMessage \union DataMessage
             \union ContinueMessage \union EndMessage

TypeName == [Start |-> "start", Ready |-> "ready", Data |-> "data",
             Continue |-> "continue", End |-> "end"]

MessageTypeFromString(s) ==
    IF \E t \in DOMAIN TypeName : TypeName[t] = s
    THEN CHOOSE t \in DOMAIN TypeName : TypeName[t] = s
    ELSE "Unknown"

IsBool(v) == v \in {"#true", "#false"}
IsString(v) == ~IsBool(v) /\ v # "#number"

Object(fields) == [object |-> TRUE, at |-> fields]
NotAnObject == [object |-> FALSE, at |-> <<>>]  \* also null, what a new reader holds
Has(doc, label) == doc.object /\ label \in DOMAIN doc.at
HasString(doc, label) == Has(doc, label) /\ IsString(doc.at[label])
HasBool(doc, label) == Has(doc, label) /\ IsBool(doc.at[label])

\* The to_json functions.  A Ready message that is ready leaves its description out.
ToJson(m) ==
    LET name == TypeName[m.type]
        ready == IF m.isReady THEN "#true" ELSE "#false"
    IN Object(CASE m.type = "Start" -> [messageType |-> name, jobId |-> m.jobId, info |-> m.info]
                [] m.type = "Data" -> [messageType |-> name, metadata |-> m.metadata]
                [] m.type = "Ready" /\ m.isReady -> [messageType |-> name, isReady |-> ready]
                [] m.type = "Ready" /\ ~m.isReady ->
                      [messageType |-> name, isReady |-> ready, description |-> m.description]
                [] OTHER -> [messageType |-> name])

(***************************************************************************)
(* The from_json functions.  at() throws when the label is missing or the  *)
(* document is no object, get<T>() when the value has another type.        *)
(***************************************************************************)
Throws == [type |-> "throws"]

FromJsonStart(doc) ==
    IF HasString(doc, "messageType") /\ HasString(doc, "jobId") /\ Has(doc, "info")
    THEN [type |-> MessageTypeFromString(doc.at["messageType"]),
          jobId |-> doc.at["jobId"], info |-> doc.at["info"]]
    ELSE Throws

\* An optional string field; the default of the message's constructor is "".
OptionalOk(doc, label) == Has(doc, label) => HasString(doc, label)
Optional(doc, label) == IF Has(doc, label) THEN doc.at[label] ELSE ""

\* Mutant of FromJsonData: the message type is not read.
FromJsonDataTolerant(doc, bytes) ==
    IF OptionalOk(doc, "metadata")
    THEN [type |-> "Data", metadata |-> Optional(doc, "metadata"), payload |-> bytes]
    ELSE Throws

\* With the SetPayload that GetDataMessage adds.
FromJsonData(doc, bytes) ==
    IF HasString(doc, "messageType") /\ OptionalOk(doc, "metadata")
    THEN [type |-> MessageTypeFromString(doc.at["messageType"]),
          metadata |-> Optional(doc, "metadata"), payload |-> bytes]
    ELSE Throws

\* Mutant of FromJsonReady: the description is mandatory.
FromJsonReadyStrict(doc) ==
    IF HasBool(doc, "isReady") /\ HasString(doc, "description")
    THEN [type |-> "Ready", isReady |-> doc.at["isReady"] = "#true",
          description |-> doc.at["description"]]
    ELSE Throws

FromJsonReady(doc) ==
    IF HasBool(doc, "isReady") /\ OptionalOk(doc, "description")
    THEN [type |-> "Ready", isReady |-> doc.at["isReady"] = "#true",
          description |-> Optional(doc, "description")]
    ELSE Throws

\* ContinueMessage and EndMessage.
FromJsonBare(doc) ==
    IF HasString(doc, "messageType")
    THEN [type |-> MessageTypeFromString(doc.at["messageType"])]
    ELSE Throws

(***************************************************************************)
(* Frames: nothing, bytes msgpack cannot unpack, a value that is not a map *)
(* with text keys, or a map that may have the keys info and payload.  A    *)
(* key's value may have the wrong msgpack type; other keys are only        *)
(* logged and are left out.                                                *)
(***************************************************************************)
NoBytes == "absent"
BadBytes == "not_binary"

\* What stands for something else is no text and no payload.
ASSUME EncodingAssumption ==
    /\ Text \intersect {"#true", "#false", "#number"} = {}
    /\ Bytes \intersect {NoBytes, BadBytes} = {}

NoFrame == [shape |-> "empty"]
Map(text, doc, bytes) == [shape |-> "map", text |-> text, doc |-> doc, payload |-> bytes]

\* The pack adaptors.
Pack(m) == Map("json", ToJson(m), IF m.type = "Data" THEN m.payload ELSE NoBytes)

\* Documents a peer can send: those of the messages, the same with a field
\* missing or of another JSON type, or under another message type, and
\* documents that are no object.
Labels == {"messageType", "jobId", "info", "isReady", "description", "metadata"}
Without(doc, label) == Object([l \in DOMAIN doc.at \ {label} |-> doc.at[l]])
Retyped(doc, label, v) == Object([l \in DOMAIN doc.at |-> IF l = label THEN v ELSE doc.at[l]])
Document ==
    LET Good == {ToJson(m) : m \in Message}
        Names == {TypeName[t] : t \in DOMAIN TypeName} \union {"other"}
    IN Good
         \union {Without(d, l) : d \in Good, l \in Labels}
         \union {Retyped(d, l, "#number") : d \in Good, l \in Labels}
         \union {Retyped(d, "messageType", n) : d \in Good, n \in Names}
         \union {NotAnObject}

Frame ==
    {[shape |-> s] : s \in {"empty", "garbled", "not_map"}}
    \union {Map(text, NotAnObject, b) : text \in {"absent", "not_text", "not_json"},
                                        b \in Bytes \union {NoBytes, BadBytes}}
    \union {Map("json", d, b) : d \in Document, b \in Bytes \union {NoBytes, BadBytes}}

(***************************************************************************)
(* MessageReader.                                                          *)
(***************************************************************************)

\* Mutant of SafeMessageTypeExtractFromJson: the text is not converted.
RawMessageTypeExtract(doc) ==
    IF Has(doc, "messageType") THEN doc.at["messageType"] ELSE "Unknown"

\* SafeMessageTypeExtractFromJson, for a message type that is a string.
SafeMessageTypeExtractFromJson(doc) ==
    IF Has(doc, "messageType") THEN MessageTypeFromString(doc.at["messageType"]) ELSE "Unknown"

\* The conversion of a message type that is no string throws.
ExtractThrows(doc) == ~OptionalOk(doc, "messageType")

\* Parse, called on a reader of its own by OnMessage: the map's keys are visited
\* in order, info before payload, and an exception leaves what was assigned.
Parse(f) ==
    LET isMap == f.shape = "map"
        parsed == isMap /\ f.text = "json"
        infoThrows == isMap /\ \/ f.text \in {"not_text", "not_json"}
                               \/ parsed /\ ExtractThrows(f.doc)
        payloadThrows == isMap /\ ~infoThrows /\ f.payload = BadBytes
    IN /\ frame' = f
       /\ json' = IF parsed THEN f.doc ELSE NotAnObject
       /\ IF parsed /\ ~infoThrows
          THEN type' = SafeMessageTypeExtractFromJson(f.doc)
          ELSE type' \in MessageType
       /\ payload' = IF isMap /\ ~infoThrows /\ f.payload \in Bytes THEN f.payload ELSE ""
       /\ result' = IF f.shape = "garbled" \/ infoThrows \/ payloadThrows THEN "throws"
                    ELSE IF parsed THEN "true" ELSE "false"

\* GetMessage; each typed getter does the same for its own type.
GetMessage ==
    CASE type = "Start" -> FromJsonStart(json)
      [] type = "Ready" -> FromJsonReady(json)
      [] type = "Data" -> FromJsonData(json, payload)
      [] type \in {"Continue", "End"} -> FromJsonBare(json)
      [] OTHER -> [type |-> "Unknown"]

\* What JobConnection::OnMessage hands on: it ignores the value Parse returned,
\* and reads the document of Start and Data messages only.
Dispatched ==
    IF result = "throws" THEN Throws
    ELSE IF type \in {"Start", "Data"} THEN GetMessage
    ELSE [type |-> type]

Init ==
    /\ frame = NoFrame /\ result = "false"
    /\ type \in MessageType /\ json = NotAnObject /\ payload = ""

Next == \E f \in Frame : Parse(f)

Spec == Init /\ [][Next]_vars

(***************************************************************************)
(* Properties.                                                             *)
(***************************************************************************)
TypeOK ==
    /\ frame \in Frame
    /\ type \in MessageType /\ json \in Document /\ payload \in Bytes
    /\ result \in {"true", "false", "throws"}

\* A packed message is read back as the same message; the one field lost on the
\* way is the description of a Ready message that is ready.
RoundTrip ==
    \A m \in Message : frame = Pack(m) =>
        /\ result = "true"
        /\ GetMessage = IF m.type = "Ready" /\ m.isReady THEN [m EXCEPT !.description = ""] ELSE m

\* OnMessage goes on after a frame that Parse could not read, with a type nobody
\* assigned.  Even so such a frame never starts a job and never submits data:
\* the getters throw on the null document.
UnparsedStartsNothing ==
    result # "true" => Dispatched.type \notin {"Start", "Data"}

(***************************************************************************)
(* What the documentation says and the code does not keep.                 *)
(***************************************************************************)

\* "Above returns false when it couldn't be parsed properly and true when it
\* could" (osprey_ws_protocol.hpp:48): Parse answers, it does not throw.
ParseAnswers == result # "throws"
=============================================================================
