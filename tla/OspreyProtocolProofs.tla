------------------------ MODULE OspreyProtocolProofs ------------------------
(***************************************************************************)
(* Proofs about OspreyProtocol, for any texts and payloads.                *)
(***************************************************************************)
EXTENDS OspreyProtocol, TLAPS

\* Any text names a message type, Unknown if no other.
LEMMA TypeOfString ==
  ASSUME NEW s PROVE MessageTypeFromString(s) \in MessageType
<1>1. DOMAIN TypeName \subseteq MessageType
  BY DEF TypeName, MessageType
<1> QED
  BY <1>1 DEF MessageTypeFromString, MessageType

\* A reader holds a message type, one of the documents sent, and one of the payloads
\* sent or none, whatever frame it was given and wherever Parse gave up.
THEOREM ProtocolTypes == Spec => []TypeOK
<1>1. NotAnObject \in Document /\ "" \in Bytes /\ NoFrame \in Frame
  <2>1. NotAnObject \in Document
    BY DEF Document
  <2>2. NoFrame \in {[shape |-> s] : s \in {"empty", "garbled", "not_map"}}
    BY DEF NoFrame
  <2>3. NoFrame \in Frame
    BY <2>2 DEF Frame
  <2> QED
    BY <2>1, <2>3, ProtocolAssumption
<1>2. Init => TypeOK
  BY <1>1 DEF Init, TypeOK
<1>3. TypeOK /\ [Next]_vars => TypeOK'
  <2>1. ASSUME NEW f \in Frame, Parse(f) PROVE TypeOK'
    <3>1. f.shape = "map" /\ f.text = "json" => f.doc \in Document
      BY DEF Frame, Map
    <3>2. json' \in Document
      BY <1>1, <2>1, <3>1 DEF Parse
    <3>3. type' \in MessageType
      BY <2>1, TypeOfString DEF Parse, SafeMessageTypeExtractFromJson, MessageType
    <3>4. payload' \in Bytes /\ result' \in {"true", "false", "throws"} /\ frame' = f
      BY <1>1, <2>1 DEF Parse
    <3> QED
      BY <3>2, <3>3, <3>4 DEF TypeOK
  <2> QED
    BY <2>1 DEF Next, vars, reader, TypeOK
<1> QED
  BY <1>2, <1>3, PTL DEF Spec

\* A reader has a document only if Parse returned true or threw.
Unread == result \notin {"true", "throws"} => json = NotAnObject

\* The getters of Start and Data throw on the null document.
LEMMA GettersThrow ==
  ASSUME json = NotAnObject, type \in {"Start", "Data"} PROVE GetMessage = Throws
<1>1. \A label : ~Has(json, label)
  BY DEF Has, NotAnObject
<1> QED
  BY <1>1 DEF GetMessage, FromJsonStart, FromJsonData, HasString

\* A frame that Parse could not read never starts a job and never submits data,
\* whatever type the reader's uninitialised field shows.
THEOREM ProtocolUnparsedStartsNothing == Spec => []UnparsedStartsNothing
<1>1. Init => Unread
  BY DEF Init, Unread
<1>2. Unread /\ [Next]_vars => Unread'
  <2>1. ASSUME NEW f \in Frame, Parse(f) PROVE Unread'
    BY <2>1 DEF Parse, Unread
  <2> QED
    BY <2>1 DEF Next, vars, reader, Unread
<1>3. Unread => UnparsedStartsNothing
  <2> SUFFICES ASSUME Unread, result # "true", result # "throws", type \in {"Start", "Data"}
               PROVE  Dispatched.type \notin {"Start", "Data"}
    BY DEF UnparsedStartsNothing, Dispatched, Throws
  <2> QED
    BY GettersThrow DEF Unread, Dispatched, Throws
<1> QED
  BY <1>1, <1>2, <1>3, PTL DEF Spec

(***************************************************************************)
(* The round trip.                                                         *)
(***************************************************************************)

\* A type's name is read as that type: no two types have the same name.
LEMMA NameOfType ==
  ASSUME NEW t \in {"Start", "Ready", "Data", "Continue", "End"}
  PROVE  MessageTypeFromString(TypeName[t]) = t /\ IsString(TypeName[t])
<1>1. DOMAIN TypeName = {"Start", "Ready", "Data", "Continue", "End"}
  BY DEF TypeName
<1>2. \A u \in DOMAIN TypeName : TypeName[u] = TypeName[t] => u = t
  BY <1>1 DEF TypeName
<1> QED
  BY <1>1, <1>2 DEF MessageTypeFromString, IsString, IsBool, TypeName

\* The documents of the messages.
LEMMA StartDocument ==
  ASSUME NEW m \in StartMessage
  PROVE  ToJson(m) = Object([messageType |-> "start", jobId |-> m.jobId, info |-> m.info])
BY DEF ToJson, StartMessage, TypeName

\* The document of a Data message.
LEMMA DataDocument ==
  ASSUME NEW m \in DataMessage
  PROVE  ToJson(m) = Object([messageType |-> "data", metadata |-> m.metadata])
BY DEF ToJson, DataMessage, TypeName

\* The document of a Ready message, which has a description if it is not ready.
LEMMA ReadyDocument ==
  ASSUME NEW m \in ReadyMessage
  PROVE  ToJson(m) = Object(IF m.isReady
                            THEN [messageType |-> "ready", isReady |-> "#true"]
                            ELSE [messageType |-> "ready", isReady |-> "#false",
                                  description |-> m.description])
BY DEF ToJson, ReadyMessage, TypeName

\* The document of a message that is its type and no more.
LEMMA BareDocument ==
  ASSUME NEW m \in ContinueMessage \union EndMessage
  PROVE  ToJson(m) = Object([messageType |-> TypeName[m.type]])
BY DEF ToJson, ContinueMessage, EndMessage, TypeName

\* Every document begins with the name of its message's type.
LEMMA TypeInDocument ==
  ASSUME NEW m \in Message
  PROVE  /\ m.type \in {"Start", "Ready", "Data", "Continue", "End"}
         /\ Has(ToJson(m), "messageType")
         /\ ToJson(m).at["messageType"] = TypeName[m.type]
<1>1. CASE m \in StartMessage
  BY <1>1, StartDocument DEF StartMessage, Has, Object, TypeName
<1>2. CASE m \in DataMessage
  BY <1>2, DataDocument DEF DataMessage, Has, Object, TypeName
<1>3. CASE m \in ReadyMessage
  <2>1. CASE m.isReady
    BY <1>3, <2>1, ReadyDocument DEF ReadyMessage, Has, Object, TypeName
  <2>2. CASE ~m.isReady
    BY <1>3, <2>2, ReadyDocument DEF ReadyMessage, Has, Object, TypeName
  <2> QED
    BY <2>1, <2>2
<1>4. CASE m \in ContinueMessage \union EndMessage
  BY <1>4, BareDocument DEF ContinueMessage, EndMessage, Has, Object
<1> QED
  BY <1>1, <1>2, <1>3, <1>4 DEF Message

\* What a reader holds when it has parsed the frame of a message.
ReadBack ==
    \A m \in Message : frame = Pack(m) =>
        /\ result = "true" /\ json = ToJson(m) /\ type = m.type
        /\ m.type = "Data" => payload = m.payload

\* Parse finds in the frame of a message what was packed.
LEMMA ParseReadsBack ==
  ASSUME NEW f, Parse(f) PROVE ReadBack'
<1> SUFFICES ASSUME NEW m \in Message, f = Pack(m)
             PROVE  /\ result' = "true" /\ json' = ToJson(m) /\ type' = m.type
                    /\ m.type = "Data" => payload' = m.payload
  BY DEF Parse, ReadBack
<1>1. /\ f.shape = "map" /\ f.text = "json" /\ f.doc = ToJson(m)
      /\ f.payload = IF m.type = "Data" THEN m.payload ELSE NoBytes
  BY DEF Pack, Map
<1>2. m.type = "Data" => m.payload \in Bytes
  BY DEF Message, StartMessage, ReadyMessage, DataMessage, ContinueMessage, EndMessage
<1>3. f.payload # BadBytes
  BY <1>1, <1>2, EncodingAssumption DEF NoBytes, BadBytes
<1>4. /\ ~ExtractThrows(f.doc)
      /\ SafeMessageTypeExtractFromJson(f.doc) = m.type
  BY <1>1, TypeInDocument, NameOfType
     DEF ExtractThrows, OptionalOk, HasString, SafeMessageTypeExtractFromJson
<1> QED
  BY <1>1, <1>2, <1>3, <1>4 DEF Parse

\* A text is not taken for a boolean.
LEMMA TextIsString ==
  ASSUME NEW t \in Text PROVE IsString(t)
BY EncodingAssumption DEF IsString, IsBool

\* Each from_json function undoes the to_json function of its message.
LEMMA StartRoundTrip ==
  ASSUME NEW m \in StartMessage PROVE FromJsonStart(ToJson(m)) = m
<1> DEFINE doc == ToJson(m)
<1>1. /\ Has(doc, "messageType") /\ doc.at["messageType"] = TypeName["Start"]
      /\ Has(doc, "jobId") /\ doc.at["jobId"] = m.jobId
      /\ Has(doc, "info") /\ doc.at["info"] = m.info
  BY StartDocument DEF Has, Object, TypeName
<1>2. m.jobId \in Text /\ m = [type |-> "Start", jobId |-> m.jobId, info |-> m.info]
  BY DEF StartMessage
<1> HIDE DEF doc
<1>3. FromJsonStart(doc) = m
  BY <1>1, <1>2, TextIsString, NameOfType DEF FromJsonStart, HasString
<1> QED
  BY <1>3 DEF doc

\* Data messages, whose payload travels beside the document.
LEMMA DataRoundTrip ==
  ASSUME NEW m \in DataMessage PROVE FromJsonData(ToJson(m), m.payload) = m
<1> DEFINE doc == ToJson(m)
<1>1. /\ Has(doc, "messageType") /\ doc.at["messageType"] = TypeName["Data"]
      /\ Has(doc, "metadata") /\ doc.at["metadata"] = m.metadata
  BY DataDocument DEF Has, Object, TypeName
<1>2. m.metadata \in Text /\ m = [type |-> "Data", metadata |-> m.metadata, payload |-> m.payload]
  BY DEF DataMessage
<1> HIDE DEF doc
<1>3. FromJsonData(doc, m.payload) = m
  BY <1>1, <1>2, TextIsString, NameOfType DEF FromJsonData, HasString, OptionalOk, Optional
<1> QED
  BY <1>3 DEF doc

\* Ready messages: the description of one that is ready is not sent.
LEMMA ReadyRoundTrip ==
  ASSUME NEW m \in ReadyMessage
  PROVE  FromJsonReady(ToJson(m)) = IF m.isReady THEN [m EXCEPT !.description = ""] ELSE m
<1> DEFINE doc == ToJson(m)
<1>1. CASE m.isReady
  <2>1. Has(doc, "isReady") /\ doc.at["isReady"] = "#true" /\ ~Has(doc, "description")
    BY <1>1, ReadyDocument DEF Has, Object
  <2>2. [m EXCEPT !.description = ""] = [type |-> "Ready", isReady |-> TRUE, description |-> ""]
    <3> DEFINE n == [m EXCEPT !.description = ""]
    <3>1. n \in ReadyMessage /\ n.isReady = m.isReady /\ n.description = ""
      BY ProtocolAssumption DEF ReadyMessage
    <3> HIDE DEF n
    <3>2. /\ n = [type |-> "Ready", isReady |-> n.isReady, description |-> n.description]
          /\ n.isReady \in BOOLEAN
      BY <3>1 DEF ReadyMessage
    <3>3. n.isReady = TRUE
      BY <1>1, <3>1, <3>2
    <3>4. n = [type |-> "Ready", isReady |-> TRUE, description |-> ""]
      BY <3>1, <3>2, <3>3
    <3> QED
      BY <3>4 DEF n
  <2> HIDE DEF doc
  <2>3. FromJsonReady(doc) = [type |-> "Ready", isReady |-> TRUE, description |-> ""]
    BY <2>1 DEF FromJsonReady, HasBool, IsBool, OptionalOk, Optional
  <2> QED
    BY <1>1, <2>2, <2>3 DEF doc
<1>2. CASE ~m.isReady
  <2>1. /\ Has(doc, "isReady") /\ doc.at["isReady"] = "#false"
        /\ Has(doc, "description") /\ doc.at["description"] = m.description
    BY <1>2, ReadyDocument DEF Has, Object
  <2>2. /\ m.description \in Text
        /\ m = [type |-> "Ready", isReady |-> FALSE, description |-> m.description]
    <3>1. /\ m.description \in Text /\ m.isReady \in BOOLEAN
          /\ m = [type |-> "Ready", isReady |-> m.isReady, description |-> m.description]
      BY DEF ReadyMessage
    <3>2. m.isReady = FALSE
      BY <1>2, <3>1
    <3> QED
      BY <3>1, <3>2
  <2> HIDE DEF doc
  <2>3. FromJsonReady(doc) = [type |-> "Ready", isReady |-> FALSE, description |-> m.description]
    BY <2>1, <2>2, TextIsString DEF FromJsonReady, HasBool, IsBool, HasString, OptionalOk, Optional
  <2> QED
    BY <1>2, <2>2, <2>3 DEF doc
<1> QED
  BY <1>1, <1>2

\* Continue and End messages.
LEMMA BareRoundTrip ==
  ASSUME NEW m \in ContinueMessage \union EndMessage PROVE FromJsonBare(ToJson(m)) = m
<1> DEFINE doc == ToJson(m)
<1>1. /\ m = [type |-> m.type] /\ m.type \in {"Continue", "End"}
  BY DEF ContinueMessage, EndMessage
<1>2. Has(doc, "messageType") /\ doc.at["messageType"] = TypeName[m.type]
  BY <1>1, BareDocument DEF Has, Object
<1> HIDE DEF doc
<1>3. FromJsonBare(doc) = m
  BY <1>1, <1>2, NameOfType DEF FromJsonBare, HasString
<1> QED
  BY <1>3 DEF doc

\* A packed message is read back as the same message, but for the description of a
\* Ready message that is ready.
THEOREM ProtocolRoundTrip == Spec => []RoundTrip
<1>1. Init => ReadBack
  <2>1. NoFrame.shape = "empty" /\ \A m \in Message : Pack(m).shape = "map"
    BY DEF NoFrame, Pack, Map
  <2> QED
    BY <2>1 DEF Init, ReadBack
<1>2. ReadBack /\ [Next]_vars => ReadBack'
  BY ParseReadsBack DEF Next, vars, reader, ReadBack
<1>3. ReadBack => RoundTrip
  <2> SUFFICES ASSUME NEW m \in Message, result = "true", json = ToJson(m), type = m.type,
                      m.type = "Data" => payload = m.payload
               PROVE  GetMessage = IF m.type = "Ready" /\ m.isReady
                                   THEN [m EXCEPT !.description = ""] ELSE m
    BY DEF ReadBack, RoundTrip
  <2>1. CASE m \in StartMessage
    BY <2>1, StartRoundTrip DEF StartMessage, GetMessage
  <2>2. CASE m \in DataMessage
    BY <2>2, DataRoundTrip DEF DataMessage, GetMessage
  <2>3. CASE m \in ReadyMessage
    BY <2>3, ReadyRoundTrip DEF ReadyMessage, GetMessage
  <2>4. CASE m \in ContinueMessage \union EndMessage
    BY <2>4, BareRoundTrip DEF ContinueMessage, EndMessage, GetMessage
  <2> QED
    BY <2>1, <2>2, <2>3, <2>4 DEF Message
<1> QED
  BY <1>1, <1>2, <1>3, PTL DEF Spec
=============================================================================
