--------------------------- MODULE MainImagesProofs ---------------------------
(***************************************************************************)
(* The outcome, the accounts, the plan and the texts of a main image task  *)
(* can be trusted, for every set of requests, everything the text model    *)
(* may answer, and any number of failing calls, store errors, worker       *)
(* deaths, releases and deliveries.                                        *)
(***************************************************************************)
EXTENDS MainImages, SequenceLemmas

UsageType == [requests : Nat, images : Nat]
Snapshots == {NoSnapshot, Empty, Unavailable, OneImage}

(* The types, and why a second call is over when its node is: it belongs to *)
(* a picture that is still to be made.                                      *)
TInv ==
    /\ TypeOK
    /\ step = "render_images" /\ compat => Current \in DOMAIN plan.shots

-----------------------------------------------------------------------------
(* Facts about the calls and the records. *)

(* The fields of a request.                                                  *)
LEMMA RequestTyped ==
  ASSUME TypeOK
  PROVE  /\ request.shots \in 1..12
         /\ request.route \in {"mock", "banana2", "runapi_gemini31"}
         /\ request.text \in {"mock", "real"}
         /\ request.cached \in BOOLEAN
BY MainImagesAssumption DEF TypeOK, RequestType

(* What a provider remembers after a call, and when a call sent nothing. *)
LEMMA ImageCallShape ==
  ASSUME NEW route \in {"mock", "banana2", "runapi_gemini31"}, NEW keys, NEW frame,
         NEW lu, NEW c \in GenerateImages(route, keys, frame, lu)
  PROVE  /\ c.returned \in BOOLEAN
         /\ route = "mock" => c.sends = 0 /\ c.lastUsage = Empty
         /\ route # "mock" => \/ c.sends = 1 /\ c.lastUsage \in {Unavailable, OneImage}
                              \/ c.sends = 0 /\ c.lastUsage = lu
<1>1. CASE route = "mock"
  <2>1. c = CopySample(frame)
    BY <1>1 DEF GenerateImages
  <2>2. Supported(frame) \in BOOLEAN
    BY DEF Supported
  <2>3. c.returned \in BOOLEAN
    BY <2>1, <2>2 DEF CopySample, ImageCall
  <2>4. c.sends = 0 /\ c.lastUsage = Empty
    BY <2>1 DEF CopySample, ImageCall
  <2>5. QED
    BY <1>1, <2>3, <2>4
<1>2. CASE route = "banana2"
  <2>1. PICK reply \in Replies, isPicture \in BOOLEAN :
             c = WriteGeneratedImage(GenerateSingle(Transport(keys), reply), isPicture)
    BY <1>2 DEF GenerateImages, Banana2Images
  <2>2. GenerateSingle(Transport(keys), reply).bytes \in BOOLEAN
    BY DEF GenerateSingle, ViaGoogle, ViaRunapi, ExtractImageBytes
  <2>3. GenerateSingle(Transport(keys), reply).usage \in {Unavailable, OneImage}
    BY DEF GenerateSingle
  <2>4. QED
    BY <1>2, <2>1, <2>2, <2>3 DEF WriteGeneratedImage, ImageCall
<1>3. CASE route = "runapi_gemini31"
  <2>1. CASE "runapi" \notin keys
    <3>1. c = ImageCall(0, FALSE, lu)
      BY <1>3, <2>1 DEF GenerateImages, RunapiImages
    <3>2. c.returned = FALSE /\ c.sends = 0 /\ c.lastUsage = lu
      BY <3>1 DEF ImageCall
    <3>3. QED
      BY <1>3, <3>2
  <2>2. CASE "runapi" \in keys
    <3>1. PICK reply \in Replies, isPicture \in BOOLEAN :
               c = WriteGeneratedImage(GenerateSingleRunapi(reply), isPicture)
      BY <1>3, <2>2 DEF GenerateImages, RunapiImages
    <3>2. GenerateSingleRunapi(reply).bytes \in BOOLEAN
      BY DEF GenerateSingleRunapi, ViaRunapi, ExtractImageBytes
    <3>3. GenerateSingleRunapi(reply).usage \in {Unavailable, OneImage}
      BY DEF GenerateSingleRunapi
    <3>4. QED
      BY <1>3, <3>1, <3>2, <3>3 DEF WriteGeneratedImage, ImageCall
  <2>3. QED
    BY <2>1, <2>2
<1>4. QED
  BY <1>1, <1>2, <1>3

(* A call of the text model sends a number of requests. *)
LEMMA TextCallShape ==
  ASSUME NEW keys, NEW c \in TextCalls(keys)
  PROVE  c.sends \in Nat
<1>1. CASE "runapi" \in keys
  <2>1. PICK posts \in PostWithRetry, body \in Bodies : c = GenerateStructured(posts, body)
    BY <1>1 DEF TextCalls
  <2>2. PICK n \in 1..MaxAttempts : posts \in [1..n -> {"response", "lost"}]
    BY DEF PostWithRetry
  <2>3. Len(posts) \in Nat
    <3>1. posts \in Seq({"response", "lost"})
      BY <2>2 DEF MaxAttempts
    <3>2. QED
      BY <3>1
  <2>4. QED
    BY <2>1, <2>3 DEF GenerateStructured
<1>2. CASE "runapi" \notin keys
  BY <1>2 DEF TextCalls
<1>3. QED
  BY <1>1, <1>2

(* Adding an event adds the requests of its snapshot. *)
LEMMA SummarizeShape ==
  ASSUME NEW m \in MetricsType, NEW s \in UsageType, NEW success \in BOOLEAN
  PROVE  /\ Summarize(m, s, success) \in MetricsType
         /\ Summarize(m, s, success).usage.requests = m.usage.requests + s.requests
<1>1. m.events \in Nat /\ m.failed \in Nat /\ m.usage \in UsageType
  BY DEF MetricsType, UsageType
<1>2. Merged(m.usage, s) \in UsageType
  BY <1>1 DEF Merged, Snapshot, UsageType
<1>3. Merged(m.usage, s).requests = m.usage.requests + s.requests
  BY DEF Merged, Snapshot
<1>4. Summarize(m, s, success).usage = Merged(m.usage, s)
  BY DEF Summarize
<1>5. Summarize(m, s, success) \in MetricsType
  <2>1. m.events + 1 \in Nat
    BY <1>1
  <2> DEFINE one == IF success THEN 0 ELSE 1
             failed == m.failed + one
             usage == Merged(m.usage, s)
  <2>2. one \in {0, 1}
    BY Zenon
  <2>3. Summarize(m, s, success) = [events |-> m.events + 1, failed |-> failed, usage |-> usage]
    BY DEF Summarize
  <2>4. MetricsType = [events : Nat, failed : Nat, usage : UsageType]
    BY DEF MetricsType, UsageType
  <2> HIDE DEF one
  <2>5. failed \in Nat /\ usage \in UsageType
    BY <1>1, <1>2, <2>2
  <2> HIDE DEF failed, usage
  <2>6. QED
    BY <2>1, <2>3, <2>4, <2>5
<1>6. QED
  BY <1>3, <1>4, <1>5

(* Recording a call: nothing without a call or for the mock, one or two      *)
(* events otherwise, each with what the provider remembers.                  *)
LEMMA CountImageShape ==
  ASSUME NEW times \in {0, 1, 2}, NEW success \in BOOLEAN, CountImage(times, success),
         recorded \in [text : MetricsType, image : MetricsType], lastUsage \in Snapshots
  PROVE  /\ recorded' \in [text : MetricsType, image : MetricsType]
         /\ request.route = "mock" => recorded' = recorded
         /\ request.route # "mock" =>
              recorded'.image.usage.requests =
                recorded.image.usage.requests + times * ResolveUsage(lastUsage).requests
<1> DEFINE u == ResolveUsage(lastUsage)
           once == Summarize(recorded.image, u, success)
           twice == Summarize(once, u, FALSE)
<1>1. u \in UsageType
  BY DEF ResolveUsage, Snapshots, NoSnapshot, Empty, Unavailable, OneImage, Snapshot, UsageType
<1>2. recorded.image \in MetricsType
  OBVIOUS
<1>3. once \in MetricsType /\ once.usage.requests = recorded.image.usage.requests + u.requests
  BY <1>1, <1>2, SummarizeShape
<1>4. twice \in MetricsType /\ twice.usage.requests = once.usage.requests + u.requests
  BY <1>1, <1>3, SummarizeShape
<1>5. recorded.image.usage.requests \in Nat /\ u.requests \in Nat
  BY <1>1, <1>2 DEF MetricsType, UsageType
<1> HIDE DEF once, twice, u
<1>6. CASE request.route = "mock" \/ times = 0
  <2>1. recorded' = recorded
    BY <1>6 DEF CountImage
  <2>2. times = 0 => times * u.requests = 0
    BY <1>5
  <2>3. QED
    BY <1>5, <1>6, <2>1, <2>2 DEF u
<1>7. CASE request.route # "mock" /\ times = 1
  <2>1. recorded' = [recorded EXCEPT !.image = once]
    BY <1>7 DEF CountImage, once, u
  <2>2. QED
    BY <1>3, <1>5, <1>7, <2>1 DEF u
<1>8. CASE request.route # "mock" /\ times = 2
  <2>1. recorded' = [recorded EXCEPT !.image = twice]
    BY <1>8 DEF CountImage, once, twice, u
  <2>2. QED
    BY <1>3, <1>4, <1>5, <1>8, <2>1 DEF u
<1>9. QED
  BY <1>6, <1>7, <1>8
-----------------------------------------------------------------------------
(* Type correctness. *)

(* A picture that is kept joins the finished ones. *)
LEMMA KeepTyped ==
  ASSUME TypeOK, NEW overlay \in BOOLEAN, Keep(overlay)
  PROVE  /\ overlays' \in Seq(BOOLEAN)
         /\ final' \subseteq Nat \X Nat
         /\ compat' = FALSE
<1>1. Current \in Nat /\ delivery \in Nat
  BY MainImagesAssumption DEF TypeOK, Current
<1>2. QED
  BY <1>1 DEF TypeOK, Keep

(* Either way of counting keeps the types. *)
LEMMA CountImageTyped ==
  ASSUME TypeOK, NEW times \in {0, 1, 2}, CountImage(times, TRUE) \/ CountImage(times, FALSE)
  PROVE  recorded' \in [text : MetricsType, image : MetricsType]
<1>1. recorded \in [text : MetricsType, image : MetricsType] /\ lastUsage \in Snapshots
  BY DEF TypeOK, Snapshots
<1>2. CASE CountImage(times, TRUE)
  BY <1>1, <1>2, CountImageShape
<1>3. CASE CountImage(times, FALSE)
  BY <1>1, <1>3, CountImageShape
<1>4. QED
  BY <1>2, <1>3

(* The three ways the code counts a call. *)
LEMMA CountImageCases ==
  /\ CountImage(1, call = "returned") => CountImage(1, TRUE) \/ CountImage(1, FALSE)
  /\ (\E times \in {1, 2} : CountImage(times, times = 2)) => CountImage(1, FALSE) \/ CountImage(2, TRUE)
  /\ (\E times \in {0, 1} : CountImage(times, FALSE)) => CountImage(0, FALSE) \/ CountImage(1, FALSE)
<1>1. ASSUME CountImage(1, call = "returned")
      PROVE  CountImage(1, TRUE) \/ CountImage(1, FALSE)
  <2>1. CASE call = "returned"
    BY <1>1, <2>1 DEF CountImage
  <2>2. CASE call # "returned"
    BY <1>1, <2>2 DEF CountImage
  <2>3. QED
    BY <2>1, <2>2
<1>2. ASSUME NEW times \in {1, 2}, CountImage(times, times = 2)
      PROVE  CountImage(1, FALSE) \/ CountImage(2, TRUE)
  <2>1. CASE times = 1
    BY <1>2, <2>1 DEF CountImage
  <2>2. CASE times = 2
    BY <1>2, <2>2 DEF CountImage
  <2>3. QED
    BY <2>1, <2>2
<1>3. ASSUME NEW times \in {0, 1}, CountImage(times, FALSE)
      PROVE  CountImage(0, FALSE) \/ CountImage(1, FALSE)
  BY <1>3
<1>4. QED
  BY <1>1, <1>2, <1>3

(* Counting a call of the text model keeps the types. *)
LEMMA CountTextTyped ==
  ASSUME recorded \in [text : MetricsType, image : MetricsType], CountText
  PROVE  /\ recorded' \in [text : MetricsType, image : MetricsType]
         /\ recorded'.image = recorded.image
<1>1. recorded.text \in MetricsType
  OBVIOUS
<1>2. TextUsage \in UsageType
  BY DEF TextUsage, Unavailable, Snapshot, UsageType
<1> DEFINE success == call = "returned"
           text == Summarize(recorded.text, TextUsage, success)
<1>3. success \in BOOLEAN
  OBVIOUS
<1> HIDE DEF success
<1>4. text \in MetricsType
  BY <1>1, <1>2, <1>3, SummarizeShape
<1>5. recorded' = [recorded EXCEPT !.text = text]
  BY DEF CountText, text, success
<1> HIDE DEF text
<1>6. QED
  BY <1>4, <1>5

(* A call that the image model may make keeps the types. *)
LEMMA CallModelTyped ==
  ASSUME TypeOK, NEW frame, CallModel(frame)
  PROVE  /\ call' \in {"returned", "raised"}
         /\ lastUsage' \in Snapshots
         /\ sent' \in [text : Nat, image : Nat, unsent : Nat]
         /\ bad' \in Nat
<1>1. PICK c \in GenerateImages(request.route, request.keys, frame, lastUsage) :
        /\ bad' = IF c.returned \/ c.sends = 0 THEN bad ELSE bad + 1
        /\ sent' = [sent EXCEPT !.image = @ + c.sends, !.unsent = @ + (1 - c.sends)]
        /\ lastUsage' = c.lastUsage
        /\ call' = IF c.returned THEN "returned" ELSE "raised"
  BY DEF CallModel
<1>2. c.sends \in {0, 1} /\ c.lastUsage \in Snapshots
  BY RequestTyped, ImageCallShape DEF Snapshots, TypeOK
<1>3. sent.image + c.sends \in Nat /\ sent.unsent + (1 - c.sends) \in Nat
  BY <1>2 DEF TypeOK
<1>4. sent' \in [text : Nat, image : Nat, unsent : Nat]
  BY <1>1, <1>3 DEF TypeOK
<1>5. bad' \in Nat
  BY <1>1 DEF TypeOK
<1>6. call' \in {"returned", "raised"}
  BY <1>1
<1>7. QED
  BY <1>1, <1>2, <1>4, <1>5, <1>6

(* Every step keeps the types.                                               *)
LEMMA TypeStep ==
  ASSUME TInv, [Next]_vars
  PROVE  TInv'
<1> USE DEF TInv, Current, Rendering, Planning, NodeRaises, Steps, Ends, PlanningNodes,
        input, planned, rendering, counted, outcome, bounds
<1>1. CASE IngestAssets
  BY <1>1 DEF TypeOK, IngestAssets
<1>2. CASE LoadCached
  BY <1>2 DEF TypeOK, LoadCached, Finish, After
<1>3. CASE PlanLocally
  BY <1>3 DEF TypeOK, PlanLocally, Finish, After
<1>4. CASE AskTextModel
  <2>1. PICK c \in TextCalls(request.keys) :
          /\ bad' = IF c = [sends |-> 1, answered |-> TRUE] THEN bad ELSE bad + 1
          /\ sent' = [sent EXCEPT !.text = @ + c.sends]
          /\ call' \in {"returned", "raised"}
    BY <1>4 DEF AskTextModel
  <2>2. sent' \in [text : Nat, image : Nat, unsent : Nat] /\ bad' \in Nat
    <3>1. sent \in [text : Nat, image : Nat, unsent : Nat] /\ bad \in Nat
      BY DEF TypeOK
    <3>2. c.sends \in Nat
      BY TextCallShape, Zenon
    <3>3. bad' \in Nat
      BY <2>1, <3>1
    <3>4. sent' \in [text : Nat, image : Nat, unsent : Nat]
      BY <2>1, <3>1, <3>2
    <3>5. QED
      BY <3>3, <3>4
  <2>3. QED
    BY <1>4, <2>1, <2>2 DEF TypeOK, AskTextModel
<1>5. CASE RecordAnswer
  <2>1. recorded' \in [text : MetricsType, image : MetricsType]
    BY <1>5, CountTextTyped DEF TypeOK, RecordAnswer
  <2>2. QED
    BY <1>5, <2>1 DEF TypeOK, RecordAnswer, Finish, After
<1>6. CASE ResolveContext
  BY <1>6 DEF TypeOK, ResolveContext
<1>7. CASE GenerateV2
  <2>1. CallModel(Frame)
    BY <1>7 DEF GenerateV2
  <2>2. QED
    BY <1>7, <2>1, CallModelTyped DEF TypeOK, GenerateV2, CanCall, Snapshots
<1>8. CASE RecordV2
  <2>1. recorded' \in [text : MetricsType, image : MetricsType]
    <3>1. CountImage(1, call = "returned")
      BY <1>8 DEF RecordV2
    <3>2. QED
      BY <3>1, CountImageCases, CountImageTyped
  <2>2. CASE call = "returned"
    <3>1. Keep(FALSE) /\ UNCHANGED <<step, status>>
      BY <1>8, <2>2 DEF RecordV2
    <3>2. QED
      BY <1>8, <2>1, <3>1, KeepTyped DEF TypeOK, RecordV2
  <2>3. CASE call = "raised"
    BY <1>8, <2>1, <2>3 DEF TypeOK, RecordV2
  <2>4. QED
    BY <1>8, <2>2, <2>3 DEF TypeOK, RecordV2
<1>9. CASE RecordV2Fails
  <2>1. recorded' \in [text : MetricsType, image : MetricsType]
    <3>1. \E times \in {1, 2} : CountImage(times, times = 2)
      BY <1>9 DEF RecordV2Fails
    <3>2. QED
      BY <3>1, CountImageCases, CountImageTyped
  <2>2. CASE request.overlay
    BY <1>9, <2>1, <2>2 DEF TypeOK, RecordV2Fails
  <2>3. CASE ~request.overlay
    BY <1>9, <2>1, <2>3 DEF TypeOK, RecordV2Fails
  <2>4. QED
    BY <2>2, <2>3
<1>10. CASE GenerateCompat
  <2>1. CASE Supported(Frame)
    <3>1. CallModel(DefaultFrame)
      BY <1>10, <2>1 DEF GenerateCompat
    <3>2. QED
      BY <1>10, <3>1, CallModelTyped DEF TypeOK, GenerateCompat, CanCall, Snapshots
  <2>2. CASE ~Supported(Frame)
    <3>1. sent' = [sent EXCEPT !.unsent = @ + 1] /\ call' = "raised"
      BY <1>10, <2>2 DEF GenerateCompat
    <3>2. sent' \in [text : Nat, image : Nat, unsent : Nat]
      BY <3>1 DEF TypeOK
    <3>3. UNCHANGED <<bad, lastUsage>>
      BY <1>10, <2>2 DEF GenerateCompat
    <3>4. QED
      BY <1>10, <3>1, <3>2, <3>3 DEF TypeOK, GenerateCompat, CanCall
  <2>3. QED
    BY <2>1, <2>2
<1>11. CASE RecordCompat
  <2>1. recorded' \in [text : MetricsType, image : MetricsType]
    <3>1. CountImage(1, call = "returned")
      BY <1>11 DEF RecordCompat
    <3>2. QED
      BY <3>1, CountImageCases, CountImageTyped
  <2>2. CASE call = "returned"
    <3>1. Keep(TRUE) /\ UNCHANGED <<step, status>>
      BY <1>11, <2>2 DEF RecordCompat
    <3>2. QED
      BY <1>11, <2>1, <3>1, KeepTyped DEF TypeOK, RecordCompat
  <2>3. CASE call = "raised"
    BY <1>11, <2>1, <2>3 DEF TypeOK, RecordCompat
  <2>4. QED
    BY <1>11, <2>2, <2>3 DEF TypeOK, RecordCompat
<1>12. CASE RecordCompatFails
  <2>1. recorded' \in [text : MetricsType, image : MetricsType]
    <3>1. \E times \in {1, 2} : CountImage(times, times = 2)
      BY <1>12 DEF RecordCompatFails
    <3>2. QED
      BY <3>1, CountImageCases, CountImageTyped
  <2>2. QED
    BY <1>12, <2>1 DEF TypeOK, RecordCompatFails
<1>13. CASE FinishRender
  BY <1>13 DEF TypeOK, FinishRender
<1>14. CASE RunQc
  BY <1>14 DEF TypeOK, RunQc
<1>15. CASE Conclude
  BY <1>15 DEF TypeOK, Conclude
<1>16. CASE Export
  BY <1>16 DEF TypeOK, Export
<1>17. CASE StoreFails
  <2>1. recorded' \in [text : MetricsType, image : MetricsType]
    <3>1. CASE Rendering /\ call = "raised"
      <4>1. \E times \in {0, 1} : CountImage(times, FALSE)
        BY <1>17, <3>1 DEF StoreFails
      <4>2. QED
        BY <4>1, CountImageCases, CountImageTyped
    <3>2. CASE ~(Rendering /\ call = "raised")
      BY <1>17, <3>2 DEF TypeOK, StoreFails
    <3>3. QED
      BY <3>1, <3>2
  <2>2. QED
    BY <1>17, <2>1 DEF TypeOK, StoreFails
<1>18. CASE Crash
  BY <1>18 DEF TypeOK, Crash
<1>19. CASE CrashInSave
  <2>1. recorded' \in [text : MetricsType, image : MetricsType]
    BY <1>19, CountTextTyped DEF TypeOK, CrashInSave
  <2>2. QED
    BY <1>19, <2>1 DEF TypeOK, CrashInSave
<1>20. CASE Redeliver
  <2>1. release' \in [PlanningNodes -> Nat]
    BY <1>20 DEF TypeOK, Redeliver
  <2>2. delivery' \in 1..MaxDeliveries
    BY <1>20, MainImagesAssumption DEF TypeOK, Redeliver
  <2>3. request' \in Requests /\ recorded' \in [text : MetricsType, image : MetricsType]
    BY <1>20 DEF TypeOK, Redeliver
  <2>4. lastUsage' = NoSnapshot /\ call' = "idle" /\ ~compat' /\ compat' \in BOOLEAN
    BY <1>20 DEF Redeliver
  <2>5. step' = "ingest_assets" /\ review' \in BOOLEAN /\ overlays' \in Seq(BOOLEAN)
    <3>1. step' = "ingest_assets" /\ review' \in BOOLEAN
      BY <1>20 DEF Redeliver
    <3>2. overlays' = <<>>
      BY <1>20 DEF Redeliver
    <3>3. QED
      BY <3>1, <3>2
  <2>6. UNCHANGED <<sent, status, final, zip, bad, faults, cuts>>
    BY <1>20 DEF Redeliver
  <2>7. QED
    BY <2>1, <2>2, <2>3, <2>4, <2>5, <2>6 DEF TypeOK
<1>21. CASE Rest
  BY <1>21 DEF TypeOK, Rest, vars
<1>22. CASE UNCHANGED vars
  BY <1>22 DEF TypeOK, vars
<1>23. QED
  BY <1>1, <1>2, <1>3, <1>4, <1>5, <1>6, <1>7, <1>8, <1>9, <1>10, <1>11, <1>12, <1>13, <1>14, <1>15, <1>16, <1>17, <1>18, <1>19, <1>20, <1>21, <1>22 DEF Next

(* The first delivery begins in the types. *)
LEMMA TypeInit ==
  ASSUME Init
  PROVE  TInv
<1>1. recorded \in [text : MetricsType, image : MetricsType]
  BY DEF Init, NoMetrics, Empty, Snapshot, MetricsType
<1>2. 1 \in 1..MaxDeliveries
  BY MainImagesAssumption
<1>3. overlays \in Seq(BOOLEAN) /\ compat \in BOOLEAN /\ ~compat /\ review \in BOOLEAN
  <2>1. overlays = <<>>
    BY DEF Init
  <2>2. compat \in BOOLEAN /\ ~compat /\ review \in BOOLEAN
    BY DEF Init
  <2>3. QED
    BY <2>1, <2>2
<1>4. release \in [PlanningNodes -> Nat] /\ sent \in [text : Nat, image : Nat, unsent : Nat]
  BY DEF Init
<1>5. QED
  BY <1>1, <1>2, <1>3, <1>4 DEF Init, TInv, TypeOK, Steps, Ends

(* Type correctness of a main image task, whatever is asked, answered or     *)
(* fails.                                                                    *)
THEOREM TypeCorrect == Spec => []TypeOK
<1>1. Init => TInv
  BY TypeInit
<1>2. TInv /\ [Next]_vars => TInv'
  BY TypeStep
<1>3. TInv => TypeOK
  BY DEF TInv
<1>4. QED
  BY <1>1, <1>2, <1>3, PTL DEF Spec

-----------------------------------------------------------------------------
(* The accounts. *)

ImageRequests == recorded.image.usage.requests

(* A call under way is one of the node that runs; while the text model is   *)
(* asked there is no cached plan; and a provider that calls a service never *)
(* remembers a call without a request.                                      *)
CallInv ==
    /\ call # "idle" => step \in PlanningNodes \cup Ends \/ (Rendering /\ ~HasNoWay)
    /\ step \in PlanningNodes /\ call # "idle" => Real /\ ~CacheHit(step)
    /\ request.route # "mock" => lastUsage # Empty

(* A request that has returned and is not counted yet is pending: both sides *)
(* of the account move together when it is counted, and apart only by what   *)
(* the bounds count.                                                         *)
Account ==
    /\ sent.image <= ImageRequests + Pending + cuts + faults
    /\ ImageRequests + Pending <= sent.image + sent.unsent + faults

Counted(n) ==
    /\ request.route = "mock" => recorded' = recorded
    /\ request.route # "mock" => ImageRequests' = ImageRequests + n

(* The image events of a recorded call count one request each. *)
LEMMA CountedBy ==
  ASSUME TypeOK, CallInv, NEW times \in {0, 1, 2}, CountImage(times, TRUE) \/ CountImage(times, FALSE)
  PROVE  Counted(times)
<1>1. recorded \in [text : MetricsType, image : MetricsType] /\ lastUsage \in Snapshots
  BY DEF TypeOK, Snapshots
<1>2. request.route # "mock" => ResolveUsage(lastUsage).requests = 1
  BY <1>1 DEF CallInv, Snapshots, ResolveUsage, NoSnapshot, Empty, Unavailable, OneImage, Snapshot
<1>3. /\ request.route = "mock" => recorded' = recorded
      /\ request.route # "mock" =>
           recorded'.image.usage.requests =
             recorded.image.usage.requests + times * ResolveUsage(lastUsage).requests
  <2>1. CASE CountImage(times, TRUE)
    BY <1>1, <2>1, CountImageShape
  <2>2. CASE CountImage(times, FALSE)
    BY <1>1, <2>2, CountImageShape
  <2>3. QED
    BY <2>1, <2>2
<1>4. request.route # "mock" => times * ResolveUsage(lastUsage).requests = times
  BY <1>2
<1>5. QED
  BY <1>3, <1>4 DEF Counted, ImageRequests

(* What the image model may do to the account. *)
LEMMA CallModelCounts ==
  ASSUME TypeOK, CallInv, NEW frame, CallModel(frame)
  PROVE  /\ call' \in {"returned", "raised"}
         /\ request.route # "mock" => lastUsage' # Empty
         /\ sent'.image + sent'.unsent = sent.image + sent.unsent + 1
         /\ sent'.image \in sent.image..(sent.image + 1)
         /\ request.route = "mock" => sent'.image = sent.image
<1>1. PICK c \in GenerateImages(request.route, request.keys, frame, lastUsage) :
        /\ sent' = [sent EXCEPT !.image = @ + c.sends, !.unsent = @ + (1 - c.sends)]
        /\ lastUsage' = c.lastUsage
        /\ call' = IF c.returned THEN "returned" ELSE "raised"
  BY DEF CallModel
<1>2. /\ request.route = "mock" => c.sends = 0
      /\ request.route # "mock" => \/ c.sends = 1 /\ c.lastUsage \in {Unavailable, OneImage}
                                   \/ c.sends = 0 /\ c.lastUsage = lastUsage
  BY RequestTyped, ImageCallShape
<1>3. Empty \notin {Unavailable, OneImage}
  BY DEF Empty, Unavailable, OneImage, Snapshot
<1>4. sent \in [text : Nat, image : Nat, unsent : Nat]
  BY DEF TypeOK
<1>5. c.sends \in {0, 1}
  BY <1>2
<1>6. sent'.image = sent.image + c.sends /\ sent'.unsent = sent.unsent + (1 - c.sends)
  BY <1>1, <1>4
<1>7. request.route # "mock" => lastUsage' # Empty
  BY <1>1, <1>2, <1>3 DEF CallInv
<1>8. sent.image \in Nat /\ sent.unsent \in Nat
  BY <1>4
<1>9. QED
  BY <1>1, <1>2, <1>5, <1>6, <1>7, <1>8

(* Every step keeps calls and nodes together.                                *)
LEMMA CallStep ==
  ASSUME TInv, CallInv, [Next]_vars
  PROVE  CallInv'
<1> USE DEF CallInv, HasNoWay, Planning, Rendering, Current, NodeRaises, Ends, PlanningNodes, CacheHit, CacheFile,
        NodeCacheKey, DirectorInputs, RefineInputs, PromptVersion, Real,
        input, planned, rendering, counted, outcome, bounds
<1>0. request.route \in {"mock", "banana2", "runapi_gemini31"} /\ TypeOK
  BY RequestTyped DEF TInv
<1>1. CASE IngestAssets
  BY <1>0, <1>1 DEF IngestAssets
<1>2. CASE LoadCached
  BY <1>0, <1>2 DEF LoadCached, Finish, After
<1>3. CASE PlanLocally
  BY <1>0, <1>3 DEF PlanLocally, Finish, After
<1>4. CASE AskTextModel
  BY <1>0, <1>4 DEF AskTextModel
<1>5. CASE RecordAnswer
  BY <1>0, <1>5 DEF RecordAnswer, Finish, After
<1>6. CASE ResolveContext
  BY <1>0, <1>6 DEF ResolveContext
<1>7. CASE GenerateV2
  BY <1>0, <1>7, CallModelCounts DEF GenerateV2, CanCall
<1>8. CASE RecordV2
  BY <1>0, <1>8 DEF RecordV2, Keep
<1>9. CASE RecordV2Fails
  BY <1>0, <1>9 DEF RecordV2Fails
<1>10. CASE GenerateCompat
  BY <1>0, <1>10, CallModelCounts DEF GenerateCompat, CanCall
<1>11. CASE RecordCompat
  BY <1>0, <1>11 DEF RecordCompat, Keep
<1>12. CASE RecordCompatFails
  BY <1>0, <1>12 DEF RecordCompatFails
<1>13. CASE FinishRender
  BY <1>0, <1>13 DEF FinishRender
<1>14. CASE RunQc
  BY <1>0, <1>14 DEF RunQc
<1>15. CASE Conclude
  BY <1>0, <1>15 DEF Conclude
<1>16. CASE Export
  BY <1>0, <1>16 DEF Export
<1>17. CASE StoreFails
  BY <1>0, <1>17 DEF StoreFails
<1>18. CASE Crash
  BY <1>0, <1>18 DEF Crash
<1>19. CASE CrashInSave
  BY <1>0, <1>19 DEF CrashInSave
<1>20. CASE Redeliver
  BY <1>0, <1>20 DEF Redeliver, NoSnapshot, Empty, Snapshot
<1>21. CASE Rest
  BY <1>0, <1>21 DEF Rest, vars
<1>22. CASE UNCHANGED vars
  BY <1>22 DEF vars
<1>23. QED
  BY <1>1, <1>2, <1>3, <1>4, <1>5, <1>6, <1>7, <1>8, <1>9, <1>10, <1>11, <1>12, <1>13, <1>14, <1>15, <1>16, <1>17, <1>18, <1>19, <1>20, <1>21, <1>22 DEF Next

(* The arithmetic of the account. *)
LEMMA AccountMoves ==
  ASSUME TypeOK, Account, TypeOK',
         sent'.unsent >= sent.unsent, faults' >= faults, cuts' >= cuts,
         sent'.image - sent.image <=
            (ImageRequests' + Pending') - (ImageRequests + Pending) + (cuts' - cuts) + (faults' - faults),
         (ImageRequests' + Pending') - (ImageRequests + Pending) <=
            (sent'.image - sent.image) + (sent'.unsent - sent.unsent) + (faults' - faults)
  PROVE  Account'
<1>1. /\ ImageRequests \in Nat /\ sent.image \in Nat /\ sent.unsent \in Nat /\ cuts \in Nat /\ faults \in Nat
      /\ Pending \in Nat
  BY DEF TypeOK, MetricsType, ImageRequests, Pending
<1>2. /\ ImageRequests' \in Nat /\ sent'.image \in Nat /\ sent'.unsent \in Nat /\ cuts' \in Nat /\ faults' \in Nat
      /\ Pending' \in Nat
  BY DEF TypeOK, MetricsType, ImageRequests, Pending
<1>3. QED
  BY <1>1, <1>2 DEF Account

(* Every step but those that count or call leaves the account alone, and a  *)
(* step that forgets a pending request is counted by a bound.               *)
LEMMA AccountStep ==
  ASSUME TInv, TInv', CallInv, Account, [Next]_vars
  PROVE  Account'
<1> USE DEF Planning, Rendering, Current, NodeRaises, Ends, PlanningNodes,
        input, planned, rendering, counted, outcome, bounds
<1> DEFINE Once == IF request.route # "mock" THEN 1 ELSE 0
<1>a. /\ ImageRequests \in Nat /\ sent.image \in Nat /\ sent.unsent \in Nat
      /\ cuts \in Nat /\ faults \in Nat /\ call \in {"idle", "returned", "raised"}
      /\ request.route \in {"mock", "banana2", "runapi_gemini31"} /\ TypeOK /\ TypeOK'
      /\ sent \in [text : Nat, image : Nat, unsent : Nat]
  BY RequestTyped DEF TInv, TypeOK, MetricsType, ImageRequests
<1>b. Pending \in {0, Once} /\ Once \in {0, 1}
  BY DEF Pending
<1>c. ASSUME UNCHANGED <<faults, cuts>>, sent'.image = sent.image, sent'.unsent = sent.unsent,
             ImageRequests' + Pending' = ImageRequests + Pending
      PROVE  Account'
  BY <1>a, <1>b, <1>c, AccountMoves DEF Pending
<1>d. ASSUME Rendering, call # "idle", call' = "idle", UNCHANGED <<request, sent, cuts>>,
             faults' \in {faults, faults + 1},
             Counted(1) \/ (faults' = faults + 1 /\ (Counted(2) \/ Counted(0)))
      PROVE  Account'
  <2>1. Pending = Once /\ Pending' = 0
    BY <1>d DEF Pending
  <2>2. \/ ImageRequests' = ImageRequests + Once
        \/ faults' = faults + 1 /\ ImageRequests' \in {ImageRequests, ImageRequests + 2 * Once}
    BY <1>a, <1>d DEF Counted, ImageRequests
  <2>3. QED
    BY <1>a, <1>b, <1>d, <2>1, <2>2, AccountMoves
<1>e. ASSUME Rendering, call = "idle", call' \in {"returned", "raised"}, UNCHANGED <<request, step, recorded, faults, cuts>>,
             sent'.image + sent'.unsent = sent.image + sent.unsent + 1,
             sent'.image \in sent.image..(sent.image + 1),
             request.route = "mock" => sent'.image = sent.image
      PROVE  Account'
  <2>1. Pending = 0 /\ Pending' = Once
    BY <1>e DEF Pending
  <2>2. ImageRequests' = ImageRequests
    BY <1>e DEF ImageRequests
  <2>3. sent'.image \in Nat /\ sent'.unsent \in Nat
    BY <1>a DEF TypeOK
  <2>4. sent'.image - sent.image <= Once /\ Once <= 1 /\ sent'.unsent >= sent.unsent
    BY <1>a, <1>b, <1>e, <2>3
  <2>5. QED
    BY <1>a, <1>b, <1>e, <2>1, <2>2, <2>3, <2>4, AccountMoves
<1>f. ASSUME Pending' = 0, UNCHANGED <<sent, recorded>>,
             \/ faults' = faults + 1 /\ cuts' = cuts
             \/ cuts' = cuts + 1 /\ faults' = faults
      PROVE  Account'
  <2>1. ImageRequests' = ImageRequests
    BY <1>f DEF ImageRequests
  <2>2. QED
    BY <1>a, <1>b, <1>f, <2>1, AccountMoves
<1>1. CASE IngestAssets
  <2>1. Pending = Pending' /\ ImageRequests' = ImageRequests
    BY <1>1 DEF IngestAssets, Pending, ImageRequests
  <2>2. sent' = sent /\ faults' = faults /\ cuts' = cuts
    BY <1>1 DEF IngestAssets
  <2>3. QED
    BY <1>c, <2>1, <2>2
<1>2. CASE LoadCached
  <2>1. Pending = Pending' /\ ImageRequests' = ImageRequests
    BY <1>2 DEF LoadCached, Finish, After, CallInv, Pending, ImageRequests
  <2>2. sent' = sent /\ faults' = faults /\ cuts' = cuts
    BY <1>2 DEF LoadCached
  <2>3. QED
    BY <1>c, <2>1, <2>2
<1>3. CASE PlanLocally
  <2>1. Pending = Pending' /\ ImageRequests' = ImageRequests
    BY <1>3 DEF PlanLocally, Finish, After, CallInv, Pending, ImageRequests
  <2>2. sent' = sent /\ faults' = faults /\ cuts' = cuts
    BY <1>3 DEF PlanLocally
  <2>3. QED
    BY <1>c, <2>1, <2>2
<1>4. CASE AskTextModel
  <2>1. Pending = 0 /\ Pending' = 0 /\ ImageRequests' = ImageRequests
    BY <1>4 DEF AskTextModel, Pending, ImageRequests
  <2>2. sent'.image = sent.image /\ sent'.unsent = sent.unsent
    BY <1>a, <1>4 DEF AskTextModel
  <2>3. faults' = faults /\ cuts' = cuts
    BY <1>4 DEF AskTextModel
  <2>4. QED
    BY <1>c, <2>1, <2>2, <2>3
<1>5. CASE RecordAnswer
  <2>1. recorded'.image = recorded.image
    BY <1>a, <1>5, CountTextTyped DEF TypeOK, RecordAnswer
  <2>2. Pending = 0 /\ Pending' = 0 /\ ImageRequests' = ImageRequests
    BY <1>5, <2>1 DEF RecordAnswer, Pending, ImageRequests
  <2>3. sent' = sent /\ faults' = faults /\ cuts' = cuts
    BY <1>5 DEF RecordAnswer
  <2>4. QED
    BY <1>c, <2>2, <2>3
<1>6. CASE ResolveContext
  <2>1. Pending = Pending' /\ ImageRequests' = ImageRequests
    BY <1>6 DEF ResolveContext, CallInv, Pending, ImageRequests
  <2>2. sent' = sent /\ faults' = faults /\ cuts' = cuts
    BY <1>6 DEF ResolveContext
  <2>3. QED
    BY <1>c, <2>1, <2>2
<1>7. CASE GenerateV2
  BY <1>a, <1>e, <1>7, CallModelCounts DEF GenerateV2, CanCall
<1>8. CASE RecordV2
  <2>1. Counted(1)
    BY <1>a, <1>8, CountImageCases, CountedBy DEF RecordV2
  <2>2. QED
    BY <1>a, <1>d, <1>8, <2>1 DEF RecordV2
<1>9. CASE RecordV2Fails
  <2>1. Counted(1) \/ Counted(2)
    <3>1. \E times \in {1, 2} : CountImage(times, times = 2)
      BY <1>9 DEF RecordV2Fails
    <3>2. QED
      BY <1>a, <3>1, CountImageCases, CountedBy
  <2>2. QED
    BY <1>a, <1>d, <1>9, <2>1 DEF RecordV2Fails
<1>10. CASE GenerateCompat
  <2>1. CASE Supported(Frame)
    BY <1>a, <1>e, <1>10, <2>1, CallModelCounts DEF GenerateCompat, CanCall
  <2>2. CASE ~Supported(Frame)
    <3>1. sent' = [sent EXCEPT !.unsent = @ + 1]
      BY <1>10, <2>2 DEF GenerateCompat
    <3>2. sent'.image = sent.image /\ sent'.unsent = sent.unsent + 1
      BY <1>a, <3>1
    <3>3. QED
      BY <1>a, <1>e, <1>10, <2>2, <3>2 DEF GenerateCompat, CanCall
  <2>3. QED
    BY <2>1, <2>2
<1>11. CASE RecordCompat
  <2>1. Counted(1)
    BY <1>a, <1>11, CountImageCases, CountedBy DEF RecordCompat
  <2>2. QED
    BY <1>a, <1>d, <1>11, <2>1 DEF RecordCompat
<1>12. CASE RecordCompatFails
  <2>1. Counted(1) \/ Counted(2)
    <3>1. \E times \in {1, 2} : CountImage(times, times = 2)
      BY <1>12 DEF RecordCompatFails
    <3>2. QED
      BY <1>a, <3>1, CountImageCases, CountedBy
  <2>2. QED
    BY <1>a, <1>d, <1>12, <2>1 DEF RecordCompatFails
<1>13. CASE FinishRender
  <2>1. Pending = Pending' /\ ImageRequests' = ImageRequests
    BY <1>13 DEF FinishRender, CallInv, Pending, ImageRequests
  <2>2. sent' = sent /\ faults' = faults /\ cuts' = cuts
    BY <1>13 DEF FinishRender
  <2>3. QED
    BY <1>c, <2>1, <2>2
<1>14. CASE RunQc
  <2>1. Pending = Pending' /\ ImageRequests' = ImageRequests
    BY <1>14 DEF RunQc, Pending, ImageRequests
  <2>2. sent' = sent /\ faults' = faults /\ cuts' = cuts
    BY <1>14 DEF RunQc
  <2>3. QED
    BY <1>c, <2>1, <2>2
<1>15. CASE Conclude
  <2>1. Pending = Pending' /\ ImageRequests' = ImageRequests
    BY <1>15 DEF Conclude, Pending, ImageRequests
  <2>2. sent' = sent /\ faults' = faults /\ cuts' = cuts
    BY <1>15 DEF Conclude
  <2>3. QED
    BY <1>c, <2>1, <2>2
<1>16. CASE Export
  <2>1. Pending = Pending' /\ ImageRequests' = ImageRequests
    BY <1>16 DEF Export, Pending, ImageRequests
  <2>2. sent' = sent /\ faults' = faults /\ cuts' = cuts
    BY <1>16 DEF Export
  <2>3. QED
    BY <1>c, <2>1, <2>2
<1>17. CASE StoreFails
  <2>1. CASE Rendering /\ call = "raised"
    <3>1. Counted(0) \/ Counted(1)
      <4>1. \E times \in {0, 1} : CountImage(times, FALSE)
        BY <1>17, <2>1 DEF StoreFails
      <4>2. QED
        BY <1>a, <4>1, CountImageCases, CountedBy
    <3>2. QED
      BY <1>a, <1>d, <1>17, <2>1, <3>1 DEF StoreFails
  <2>2. CASE ~(Rendering /\ call = "raised")
    BY <1>a, <1>f, <1>17, <2>2 DEF StoreFails, Pending
  <2>3. QED
    BY <2>1, <2>2
<1>18. CASE Crash
  BY <1>f, <1>18 DEF Crash, Pending
<1>19. CASE CrashInSave
  <2>1. recorded'.image = recorded.image
    BY <1>a, <1>19, CountTextTyped DEF TypeOK, CrashInSave
  <2>2. Pending = 0 /\ Pending' = 0 /\ ImageRequests' = ImageRequests
    BY <1>19, <2>1 DEF CrashInSave, Pending, ImageRequests
  <2>3. sent' = sent /\ faults' = faults /\ cuts' = cuts + 1
    BY <1>19 DEF CrashInSave
  <2>4. QED
    BY <1>a, <2>2, <2>3, AccountMoves
<1>20. CASE Redeliver
  <2>1. Pending = Pending' /\ ImageRequests' = ImageRequests
    BY <1>20 DEF Redeliver, Pending, ImageRequests
  <2>2. sent' = sent /\ faults' = faults /\ cuts' = cuts
    BY <1>20 DEF Redeliver
  <2>3. QED
    BY <1>c, <2>1, <2>2
<1>21. CASE Rest
  <2>1. Pending = Pending' /\ ImageRequests' = ImageRequests
    BY <1>21 DEF Rest, vars, Pending, ImageRequests
  <2>2. sent' = sent /\ faults' = faults /\ cuts' = cuts
    BY <1>21 DEF Rest, vars
  <2>3. QED
    BY <1>c, <2>1, <2>2
<1>22. CASE UNCHANGED vars
  BY <1>a, <1>c, <1>22 DEF vars, Pending, ImageRequests
<1>23. QED
  BY <1>1, <1>2, <1>3, <1>4, <1>5, <1>6, <1>7, <1>8, <1>9, <1>10, <1>11, <1>12, <1>13, <1>14, <1>15, <1>16, <1>17, <1>18, <1>19, <1>20, <1>21, <1>22 DEF Next

(* Every image request that left a worker is counted, up to one per worker   *)
(* death and per raising store call, and no more is counted than was sent or *)
(* tried, however the calls, the records and the workers fail.               *)
THEOREM EveryRequestCounted == Spec => []UsageMatchesCalls
<1>1. Init => TInv /\ CallInv /\ Account
  <2>1. Init => TInv
    BY TypeInit
  <2>2. Init => CallInv
    BY DEF Init, CallInv, NoSnapshot, Empty, Snapshot
  <2>3. Init => Account
    BY DEF Init, Account, ImageRequests, Pending, NoMetrics, Empty, Snapshot
  <2>4. QED
    BY <2>1, <2>2, <2>3
<1>2. TInv /\ CallInv /\ Account /\ [Next]_vars => (TInv /\ CallInv /\ Account)'
  BY TypeStep, CallStep, AccountStep
<1>3. TInv /\ Account => UsageMatchesCalls
  <2>1. TInv => ImageRequests \in Nat /\ Pending \in Nat /\ sent.image \in Nat /\ sent.unsent \in Nat
                  /\ faults \in Nat /\ cuts \in Nat
    BY DEF TInv, TypeOK, MetricsType, ImageRequests, Pending
  <2>2. QED
    BY <2>1 DEF Account, UsageMatchesCalls, ImageRequests
<1>4. QED
  BY <1>1, <1>2, <1>3, PTL DEF Spec

-----------------------------------------------------------------------------
(* The plan. *)

ShotCount == Count(request.shots)
PlanInUse == {"render_images", "run_qc", "finalize", "export", "ended"}

(* A plan has a picture for each shot that was asked for, and a cached plan  *)
(* that parses was made from the inputs its file is named after; no plan     *)
(* outlives its delivery.                                                    *)
PlanInv ==
    /\ step \in {"ingest_assets", "director_v2"} => director = None
    /\ step \in {"ingest_assets", "director_v2", "prompt_refine_v2"} => plan = None
    /\ step = "prompt_refine_v2" => DOMAIN director.shots = 1..ShotCount
    /\ step \in PlanInUse => DOMAIN plan.shots = 1..ShotCount
    /\ \A file \in cache :
         file.torn \/ (file.value.inputs = file.key /\ DOMAIN file.value.shots = 1..ShotCount)
    /\ PlanIsCurrent

(* What a planning node makes of any answer. *)
LEMMA MadeShape ==
  ASSUME TypeOK, PlanInv, Planning, NEW given
  PROVE  /\ Made(step, given).inputs = NodeCacheKey(step)
         /\ DOMAIN Made(step, given).shots = 1..ShotCount
<1>1. request.shots \in 1..12
  BY RequestTyped
<1>2. DOMAIN OwnDirector = 1..ShotCount
  BY <1>1 DEF OwnDirector, FallbackDirector, ShotCount, Count
<1>3. CASE step = "director_v2"
  BY <1>2, <1>3 DEF Made, NodeCacheKey, NormalizeDirector
<1>4. CASE step = "prompt_refine_v2"
  <2>1. DOMAIN OwnPrompt = 1..ShotCount
    BY <1>4 DEF PlanInv, OwnPrompt, FallbackPrompt
  <2>2. DOMAIN NormalizePrompt(request.task, given, OwnPrompt) = 1..ShotCount
    BY <2>1 DEF NormalizePrompt
  <2>3. QED
    BY <1>4, <2>1, <2>2 DEF Made, NodeCacheKey
<1>5. QED
  BY <1>3, <1>4 DEF Planning, PlanningNodes

(* A node that ends with a good plan keeps the plans good. *)
LEMMA FinishKeepsPlans ==
  ASSUME TypeOK, PlanInv, Planning, NEW value, Finish(step, value),
         value.inputs = NodeCacheKey(step), DOMAIN value.shots = 1..ShotCount,
         UNCHANGED <<request, release>>,
         \A file \in cache' : file \in cache \/ file.torn
                                \/ (file.value.inputs = file.key /\ DOMAIN file.value.shots = 1..ShotCount)
  PROVE  PlanInv'
<1>1. CASE step = "director_v2"
  BY <1>1 DEF PlanInv, PlanIsCurrent, Finish, After, NodeCacheKey, ShotCount, DirectorInputs,
     RefineInputs, PromptVersion, Real, None, PlanInUse
<1>2. CASE step = "prompt_refine_v2"
  BY <1>2 DEF PlanInv, PlanIsCurrent, Finish, After, NodeCacheKey, ShotCount, DirectorInputs,
     RefineInputs, PromptVersion, Real, None, PlanInUse
<1>3. QED
  BY <1>1, <1>2 DEF Planning, PlanningNodes

(* Every step keeps plans and cache files true to their inputs.              *)
LEMMA PlanStep ==
  ASSUME TInv, PlanInv, [Next]_vars
  PROVE  PlanInv'
<1> USE DEF NodeRaises, Ends, PlanningNodes, PlanInUse, input, planned, rendering, counted, outcome, bounds
<1>0. TypeOK
  BY DEF TInv
<1>a. ASSUME UNCHANGED <<request, release, director, plan, cache>>,
             \/ step' = step \/ step' \in {"raised", "dead"}
             \/ step = "ingest_assets" /\ step' = "director_v2"
             \/ step \in PlanInUse /\ step' \in PlanInUse
      PROVE  PlanInv'
  BY <1>a DEF PlanInv, PlanIsCurrent, ShotCount, DirectorInputs, RefineInputs, PromptVersion, Real
<1>1. CASE IngestAssets
  BY <1>a, <1>1 DEF IngestAssets
<1>2. CASE LoadCached
  <2>1. PICK file \in CacheFile(step) :
          IF file.torn THEN NodeRaises /\ UNCHANGED <<director, plan, answer>>
          ELSE Finish(step, file.value) /\ UNCHANGED status
    BY <1>2 DEF LoadCached
  <2>2. UNCHANGED <<request, release, cache>> /\ Planning
    BY <1>2 DEF LoadCached
  <2>3. CASE file.torn
    BY <1>a, <2>1, <2>2, <2>3 DEF PlanInv, PlanIsCurrent, ShotCount, DirectorInputs, RefineInputs,
       PromptVersion, Real
  <2>4. CASE ~file.torn
    <3>1. file \in cache /\ file.key = NodeCacheKey(step)
      BY <2>1 DEF CacheFile
    <3>2. file.value.inputs = NodeCacheKey(step) /\ DOMAIN file.value.shots = 1..ShotCount
      BY <2>4, <3>1 DEF PlanInv
    <3>3. QED
      BY <1>0, <2>1, <2>2, <2>4, <3>2, FinishKeepsPlans
  <2>5. QED
    BY <2>3, <2>4
<1>3. CASE PlanLocally
  <2> DEFINE value == Made(step, NoAnswer)
  <2>1. Planning /\ Finish(step, value) /\ cache' = Cached(step, FALSE, value) /\ UNCHANGED <<request, release>>
    BY <1>3 DEF PlanLocally
  <2>2. value.inputs = NodeCacheKey(step) /\ DOMAIN value.shots = 1..ShotCount
    BY <1>0, <2>1, MadeShape
  <2> HIDE DEF value
  <2>3. \A file \in cache' : file \in cache \/ (file.value.inputs = file.key /\ DOMAIN file.value.shots = 1..ShotCount)
    BY <2>1, <2>2 DEF Cached
  <2>4. QED
    BY <1>0, <2>1, <2>2, <2>3, FinishKeepsPlans
<1>4. CASE AskTextModel
  BY <1>a, <1>4 DEF AskTextModel
<1>5. CASE RecordAnswer
  <2> DEFINE value == Made(step, answer)
  <2>1. Planning /\ UNCHANGED <<request, release>>
    BY <1>5 DEF RecordAnswer
  <2>2. value.inputs = NodeCacheKey(step) /\ DOMAIN value.shots = 1..ShotCount
    BY <1>0, <2>1, MadeShape
  <2>3. CASE call = "returned"
    <3>1. Finish(step, value) /\ cache' = Cached(step, FALSE, value)
      BY <1>5, <2>3 DEF RecordAnswer
    <3> HIDE DEF value
    <3>2. \A file \in cache' : file \in cache \/ (file.value.inputs = file.key /\ DOMAIN file.value.shots = 1..ShotCount)
      BY <2>2, <3>1 DEF Cached
    <3>3. QED
      BY <1>0, <2>1, <2>2, <3>1, <3>2, FinishKeepsPlans
  <2>4. CASE call # "returned"
    BY <1>a, <1>5, <2>4 DEF RecordAnswer
  <2>5. QED
    BY <2>3, <2>4
<1>6. CASE ResolveContext
  BY <1>a, <1>6 DEF ResolveContext
<1>7. CASE GenerateV2
  BY <1>a, <1>7 DEF GenerateV2, CanCall
<1>8. CASE RecordV2
  BY <1>a, <1>8 DEF RecordV2, Keep
<1>9. CASE RecordV2Fails
  BY <1>a, <1>9 DEF RecordV2Fails
<1>10. CASE GenerateCompat
  BY <1>a, <1>10 DEF GenerateCompat, CanCall
<1>11. CASE RecordCompat
  BY <1>a, <1>11 DEF RecordCompat, Keep
<1>12. CASE RecordCompatFails
  BY <1>a, <1>12 DEF RecordCompatFails
<1>13. CASE FinishRender
  BY <1>a, <1>13 DEF FinishRender
<1>14. CASE RunQc
  BY <1>a, <1>14 DEF RunQc
<1>15. CASE Conclude
  BY <1>a, <1>15 DEF Conclude
<1>16. CASE Export
  BY <1>a, <1>16 DEF Export
<1>17. CASE StoreFails
  BY <1>a, <1>17 DEF StoreFails
<1>18. CASE Crash
  BY <1>a, <1>18 DEF Crash
<1>19. CASE CrashInSave
  <2>1. UNCHANGED <<request, release, director, plan>> /\ step' = "dead" /\ cache' = Cached(step, TRUE, None)
    BY <1>19 DEF CrashInSave
  <2>2. \A file \in cache' : file \in cache \/ file.torn
    BY <2>1 DEF Cached
  <2>3. QED
    BY <2>1, <2>2 DEF PlanInv, PlanIsCurrent, ShotCount, DirectorInputs, RefineInputs, PromptVersion, Real
<1>20. CASE Redeliver
  <2>1. director' = None /\ plan' = None /\ step' = "ingest_assets" /\ UNCHANGED <<request, cache>>
    BY <1>20 DEF Redeliver
  <2>2. QED
    BY <2>1 DEF PlanInv, PlanIsCurrent, ShotCount, None
<1>21. CASE Rest
  BY <1>a, <1>21 DEF Rest, vars
<1>22. CASE UNCHANGED vars
  BY <1>a, <1>22 DEF vars
<1>23. QED
  BY <1>1, <1>2, <1>3, <1>4, <1>5, <1>6, <1>7, <1>8, <1>9, <1>10, <1>11, <1>12, <1>13, <1>14, <1>15, <1>16, <1>17, <1>18, <1>19, <1>20, <1>21, <1>22 DEF Next

(* Initially there is no plan and no file.                                   *)
LEMMA PlanInit ==
  ASSUME Init
  PROVE  PlanInv
BY DEF Init, PlanInv, PlanIsCurrent, PlanInUse, None

(* The plan in use was made from the templates of this worker and from the   *)
(* director's plan in use, for any number of releases between deliveries and *)
(* whatever the cache holds.                                                 *)
THEOREM PlanStaysCurrent == Spec => []PlanIsCurrent
<1>1. Init => TInv /\ PlanInv
  BY TypeInit, PlanInit
<1>2. TInv /\ PlanInv /\ [Next]_vars => (TInv /\ PlanInv)'
  BY TypeStep, PlanStep
<1>3. PlanInv => PlanIsCurrent
  BY DEF PlanInv
<1>4. QED
  BY <1>1, <1>2, <1>3, PTL DEF Spec

-----------------------------------------------------------------------------
(* The outcome. *)

(* final/ holds pictures of the series only, and of a finished picture the   *)
(* one this delivery made.                                                   *)
PicturesFresh ==
    /\ DOMAIN overlays \subseteq 1..ShotCount
    /\ \A file \in final : file[1] \in 1..ShotCount
    /\ \A k \in DOMAIN overlays :
         /\ <<k, delivery>> \in final
         /\ \A file \in final : file[1] = k => file = <<k, delivery>>

(* What each node after the render node has settled. *)
OutcomeSoFar ==
    /\ step \in {"ingest_assets"} \cup PlanningNodes => overlays = <<>>
    /\ step \in {"run_qc", "finalize", "export", "ended"} => DOMAIN overlays = 1..ShotCount
    /\ step \in {"finalize", "export", "ended"} => (review <=> \E k \in DOMAIN overlays : overlays[k])
    /\ step \in {"export", "ended"} => status = IF review THEN "review_required" ELSE "completed"
    /\ step = "ended" => zip = final

OutcomeInv == PicturesFresh /\ OutcomeSoFar

(* Keeping a picture replaces the file of an earlier delivery. *)
LEMMA KeepFresh ==
  ASSUME TypeOK, PlanInv, OutcomeInv, Rendering, NEW overlay \in BOOLEAN, Keep(overlay),
         UNCHANGED <<request, step, delivery>>
  PROVE  OutcomeInv'
<1>1. overlays \in Seq(BOOLEAN) /\ delivery \in Nat /\ final \subseteq Nat \X Nat /\ step = "render_images"
  BY MainImagesAssumption DEF TypeOK, Rendering
<1>2. Current \in 1..ShotCount /\ Current \notin DOMAIN overlays
  <2>1. Current \in 1..ShotCount
    BY <1>1 DEF Rendering, PlanInv, PlanInUse
  <2>2. DOMAIN overlays = 1..Len(overlays) /\ Len(overlays) \in Nat
    BY <1>1
  <2>3. QED
    BY <2>1, <2>2 DEF Current
<1>3. DOMAIN overlays' = DOMAIN overlays \cup {Current}
  BY <1>1 DEF Keep, Current
<1>4. final' = {file \in final : file[1] # Current} \cup {<<Current, delivery>>}
  BY DEF Keep
<1> HIDE DEF Current
<1>5. PicturesFresh'
  <2>1. DOMAIN overlays' \subseteq 1..ShotCount'
    BY <1>2, <1>3 DEF OutcomeInv, PicturesFresh, ShotCount
  <2>2. \A file \in final' : file[1] \in 1..ShotCount'
    BY <1>2, <1>4 DEF OutcomeInv, PicturesFresh, ShotCount
  <2>3. ASSUME NEW k \in DOMAIN overlays'
        PROVE  /\ <<k, delivery'>> \in final'
               /\ \A file \in final' : file[1] = k => file = <<k, delivery'>>
    <3>1. CASE k = Current
      BY <1>4, <3>1
    <3>2. CASE k # Current
      <4>1. k \in DOMAIN overlays
        BY <1>3, <2>3, <3>2
      <4>2. QED
        BY <1>4, <3>2, <4>1 DEF OutcomeInv, PicturesFresh
    <3>3. QED
      BY <3>1, <3>2
  <2>4. QED
    BY <2>1, <2>2, <2>3 DEF PicturesFresh
<1>6. OutcomeSoFar'
  BY <1>1 DEF OutcomeSoFar, PlanningNodes
<1>7. QED
  BY <1>5, <1>6 DEF OutcomeInv

(* Every step keeps the chain from pictures to outcome.                      *)
LEMMA OutcomeStep ==
  ASSUME TInv, PlanInv, OutcomeInv, [Next]_vars
  PROVE  OutcomeInv'
<1> USE DEF NodeRaises, Ends, PlanningNodes, input, planned, rendering, counted, outcome, bounds
<1>0. TypeOK
  BY DEF TInv
<1>a. ASSUME UNCHANGED <<request, delivery, overlays, final, review, zip>>,
             \/ step' = step /\ status' = status
             \/ step' \in {"raised", "dead"}
             \/ step' \in PlanningNodes \cup {"render_images"} /\ step \in {"ingest_assets"} \cup PlanningNodes
      PROVE  OutcomeInv'
  BY <1>a DEF OutcomeInv, PicturesFresh, OutcomeSoFar, ShotCount
<1>1. CASE IngestAssets
  BY <1>a, <1>1 DEF IngestAssets
<1>2. CASE LoadCached
  BY <1>a, <1>2 DEF LoadCached, Planning, Finish, After
<1>3. CASE PlanLocally
  BY <1>a, <1>3 DEF PlanLocally, Planning, Finish, After
<1>4. CASE AskTextModel
  BY <1>a, <1>4 DEF AskTextModel
<1>5. CASE RecordAnswer
  BY <1>a, <1>5 DEF RecordAnswer, Planning, Finish, After
<1>6. CASE ResolveContext
  BY <1>a, <1>6 DEF ResolveContext
<1>7. CASE GenerateV2
  BY <1>a, <1>7 DEF GenerateV2
<1>8. CASE RecordV2
  <2>1. CASE call = "returned"
    <3>1. Rendering /\ Keep(FALSE) /\ UNCHANGED <<request, step, delivery>>
      BY <1>8, <2>1 DEF RecordV2
    <3>2. QED
      BY <1>0, <3>1, KeepFresh
  <2>2. CASE call # "returned"
    BY <1>a, <1>8, <2>2 DEF RecordV2
  <2>3. QED
    BY <2>1, <2>2
<1>9. CASE RecordV2Fails
  BY <1>a, <1>9 DEF RecordV2Fails
<1>10. CASE GenerateCompat
  BY <1>a, <1>10 DEF GenerateCompat
<1>11. CASE RecordCompat
  <2>1. CASE call = "returned"
    <3>1. Rendering /\ Keep(TRUE) /\ UNCHANGED <<request, step, delivery>>
      BY <1>11, <2>1 DEF RecordCompat
    <3>2. QED
      BY <1>0, <3>1, KeepFresh
  <2>2. CASE call # "returned"
    BY <1>a, <1>11, <2>2 DEF RecordCompat
  <2>3. QED
    BY <2>1, <2>2
<1>12. CASE RecordCompatFails
  BY <1>a, <1>12 DEF RecordCompatFails
<1>13. CASE FinishRender
  <2>1. overlays \in Seq(BOOLEAN) /\ Len(overlays) + 1 \notin 1..ShotCount
    BY <1>0, <1>13 DEF FinishRender, Current, PlanInv, PlanInUse, TypeOK
  <2>2. ShotCount \in Nat
    BY <1>0, RequestTyped DEF ShotCount, Count
  <2>3. DOMAIN overlays = 1..ShotCount
    <3>1. DOMAIN overlays = 1..Len(overlays) /\ Len(overlays) \in Nat
      BY <2>1
    <3>2. 1..Len(overlays) \subseteq 1..ShotCount
      BY <3>1 DEF OutcomeInv, PicturesFresh
    <3>3. Len(overlays) <= ShotCount
      <4>1. CASE Len(overlays) = 0
        BY <2>2, <4>1
      <4>2. CASE Len(overlays) # 0
        <5>1. Len(overlays) \in 1..Len(overlays)
          BY <3>1, <4>2
        <5>2. QED
          BY <3>1, <3>2, <5>1, <2>2
      <4>3. QED
        BY <4>1, <4>2
    <3>4. Len(overlays) = ShotCount
      <4>1. ~(Len(overlays) + 1 <= ShotCount)
        BY <2>1, <2>2, <3>1
      <4>2. \A a, b \in Nat : a <= b /\ ~(a + 1 <= b) => a = b
        OBVIOUS
      <4>3. QED
        BY <2>2, <3>1, <3>3, <4>1, <4>2
    <3>5. QED
      BY <3>1, <3>4
  <2>4. QED
    BY <1>13, <2>3 DEF FinishRender, OutcomeInv, PicturesFresh, OutcomeSoFar, ShotCount
<1>14. CASE RunQc
  <2>1. DOMAIN plan.shots = DOMAIN overlays
    BY <1>14 DEF RunQc, OutcomeInv, OutcomeSoFar, PlanInv, PlanInUse
  <2>2. Missing = {}
    <3>1. ASSUME NEW k \in DOMAIN overlays
          PROVE  \E file \in final : file[1] = k
      <4>1. <<k, delivery>> \in final /\ <<k, delivery>>[1] = k
        BY <3>1 DEF OutcomeInv, PicturesFresh
      <4>2. QED
        BY <4>1
    <3>2. QED
      BY <2>1, <3>1 DEF Missing
  <2>3. review' <=> \E k \in DOMAIN overlays : overlays[k]
    BY <1>14, <2>2 DEF RunQc
  <2>4. step' = "finalize" /\ UNCHANGED <<request, delivery, overlays, final>>
    BY <1>14 DEF RunQc
  <2>5. DOMAIN overlays = 1..ShotCount
    BY <1>14 DEF RunQc, OutcomeInv, OutcomeSoFar
  <2>6. QED
    BY <2>3, <2>4, <2>5 DEF OutcomeInv, PicturesFresh, OutcomeSoFar, ShotCount
<1>15. CASE Conclude
  BY <1>15 DEF Conclude, OutcomeInv, PicturesFresh, OutcomeSoFar, ShotCount
<1>16. CASE Export
  BY <1>16 DEF Export, OutcomeInv, PicturesFresh, OutcomeSoFar, ShotCount
<1>17. CASE StoreFails
  BY <1>a, <1>17 DEF StoreFails
<1>18. CASE Crash
  BY <1>a, <1>18 DEF Crash
<1>19. CASE CrashInSave
  BY <1>a, <1>19 DEF CrashInSave
<1>20. CASE Redeliver
  <2>1. overlays' = <<>> /\ step' = "ingest_assets" /\ UNCHANGED <<request, final>>
    BY <1>20 DEF Redeliver
  <2>2. DOMAIN overlays' = {}
    BY <2>1
  <2>3. QED
    BY <2>1, <2>2 DEF OutcomeInv, PicturesFresh, OutcomeSoFar, ShotCount
<1>21. CASE Rest
  BY <1>a, <1>21 DEF Rest, vars
<1>22. CASE UNCHANGED vars
  BY <1>a, <1>22 DEF vars
<1>23. QED
  BY <1>1, <1>2, <1>3, <1>4, <1>5, <1>6, <1>7, <1>8, <1>9, <1>10, <1>11, <1>12, <1>13, <1>14, <1>15, <1>16, <1>17, <1>18, <1>19, <1>20, <1>21, <1>22 DEF Next

(* Initially there is no picture.                                            *)
LEMMA OutcomeInit ==
  ASSUME Init
  PROVE  OutcomeInv
<1>1. overlays = <<>> /\ DOMAIN overlays = {}
  BY DEF Init
<1>2. QED
  BY <1>1 DEF Init, OutcomeInv, PicturesFresh, OutcomeSoFar

(* The ZIP of an ended task holds exactly the pictures this delivery made,   *)
(* and the outcome says whether a text was drawn over one of them, however   *)
(* many deliveries came before and whatever failed in them.                  *)
THEOREM OutcomeStaysHonest == Spec => []OutcomeIsHonest
<1>1. Init => TInv /\ PlanInv /\ OutcomeInv
  BY TypeInit, PlanInit, OutcomeInit
<1>2. TInv /\ PlanInv /\ OutcomeInv /\ [Next]_vars => (TInv /\ PlanInv /\ OutcomeInv)'
  BY TypeStep, PlanStep, OutcomeStep
<1>3. TInv /\ PlanInv /\ OutcomeInv => OutcomeIsHonest
  <2>1. SUFFICES ASSUME TInv, PlanInv, OutcomeInv, step = "ended"
                 PROVE  OutcomeIsHonest
    BY DEF OutcomeIsHonest
  <2>2. DOMAIN overlays = DOMAIN plan.shots
    BY <2>1 DEF OutcomeInv, OutcomeSoFar, PlanInv, PlanInUse
  <2>3. DOMAIN plan.shots = 1..ShotCount /\ zip = final
    BY <2>1 DEF OutcomeInv, OutcomeSoFar, PlanInv, PlanInUse
  <2>4. final = {<<k, delivery>> : k \in DOMAIN plan.shots}
    BY <2>1, <2>2, <2>3 DEF OutcomeInv, PicturesFresh
  <2>5. status = IF \E k \in DOMAIN overlays : overlays[k] THEN "review_required" ELSE "completed"
    BY <2>1 DEF OutcomeInv, OutcomeSoFar
  <2>6. QED
    BY <2>2, <2>3, <2>4, <2>5 DEF OutcomeIsHonest
<1>4. QED
  BY <1>1, <1>2, <1>3, PTL DEF Spec

-----------------------------------------------------------------------------
(* The texts and the photos of a request. *)

(* The pictures of the series, in its order. *)
FollowsSeries(shots) ==
    /\ DOMAIN shots = 1..ShotCount
    /\ \A k \in DOMAIN shots : shots[k].id = k /\ shots[k].role = DirectorRoles[k]

(* What the two planning nodes promise of their plans.                       *)
DirectorFits(shots) ==
    FollowsSeries(shots) /\ \A k \in DOMAIN shots : shots[k].points \in Seq(Nat)

PlanFits(shots) ==
    /\ FollowsSeries(shots)
    /\ \A k \in DOMAIN shots : PolicyHolds(shots[k]) /\ shots[k].copy.points \in Seq(Nat)

Fits(node, shots) == IF node = "director_v2" THEN DirectorFits(shots) ELSE PlanFits(shots)

(* ... and so does every file of the cache.                                  *)
SeriesInv ==
    /\ director.shots # <<>> => DirectorFits(director.shots)
    /\ plan.shots # <<>> => PlanFits(plan.shots)
    /\ \A file \in cache : file.torn \/ Fits(file.node, file.value.shots)

(* The answer at hand is one to the question of the node.                    *)
AnswerInv ==
    /\ step = "ingest_assets" => answer = <<>>
    /\ step = "director_v2" => answer \in Seq(DirectorShots)
    /\ step = "prompt_refine_v2" => answer \in Seq(RefineShots)

(* At most two selling points, none of them empty or longer than eight.      *)
LEMMA PointsFit ==
  ASSUME NEW given \in Seq(Nat), NEW own \in Seq(Nat)
  PROVE  LET points == NormalizePoints(given, own)
         IN  /\ points \in Seq(Nat) /\ Len(points) <= 2
             /\ \A n \in DOMAIN points : points[n] \in 1..8
<1> DEFINE all == IF given = <<>> THEN own ELSE given
           source == Among(all, Nat \ {0})
           n == IF Len(source) < 2 THEN Len(source) ELSE 2
           cut(length) == IF length > 8 THEN 8 ELSE length
           points == [k \in 1..n |-> IF source[k] > 8 THEN 8 ELSE source[k]]
<1>1. all \in Seq(Nat)
  OBVIOUS
<1> HIDE DEF all
<1>2. source \in Seq(Nat) /\ ToSet(source) = ToSet(all) \cap (Nat \ {0})
  BY <1>1, AmongFacts
<1>3. NormalizePoints(given, own) = points
  BY DEF NormalizePoints, all
<1> HIDE DEF source
<1>4. n \in Nat /\ n <= 2 /\ \A k \in 1..n : k \in DOMAIN source
  BY <1>2
<1>5. \A k \in 1..n : source[k] \in Nat \ {0}
  BY <1>2, <1>4 DEF ToSet
<1> HIDE DEF n
<1>6. ASSUME NEW k \in 1..n
      PROVE  points[k] \in 1..8 /\ points[k] \in Nat
  <2>1. points[k] = IF source[k] > 8 THEN 8 ELSE source[k]
    OBVIOUS
  <2>2. source[k] \in Nat /\ source[k] # 0
    BY <1>5
  <2>3. \A v \in Nat : v # 0 => (IF v > 8 THEN 8 ELSE v) \in 1..8 /\ (IF v > 8 THEN 8 ELSE v) \in Nat
    OBVIOUS
  <2> HIDE DEF points
  <2>4. QED
    BY <2>1, <2>2, <2>3, Zenon
<1>7. points \in Seq(Nat) /\ Len(points) = n /\ DOMAIN points = 1..n
  BY <1>4, <1>6
<1>8. QED
  BY <1>3, <1>4, <1>6, <1>7

(* What the node writes without the model keeps the lengths. *)
LEMMA FallbackTitleFits ==
  ASSUME NEW task \in [product : Nat, brand : Nat], NEW role
  PROVE  FallbackTitle(task, role) \in 3..8
<1> DEFINE t == OrElse(ProductToken(task), 4)
<1>1. task.product \in Nat /\ task.brand \in Nat
  OBVIOUS
<1>2. t \in 3..8
  BY <1>1 DEF OrElse, ProductToken
<1>3. FallbackTitle(task, role) = IF role = "hero" THEN Trim(t, 3, 8, 4) ELSE 4
  BY DEF FallbackTitle
<1> HIDE DEF t
<1>4. QED
  BY <1>2, <1>3 DEF Trim

(* The subtitle made from the names has the length asked for.                *)
LEMMA FallbackSubtitleFits ==
  ASSUME NEW task \in [product : Nat, brand : Nat], NEW role
  PROVE  FallbackSubtitle(task, role) \in 8..15
<1>1. task.product \in Nat /\ task.brand \in Nat
  OBVIOUS
<1>2. CASE role = "hero"
  BY <1>1, <1>2 DEF FallbackSubtitle, Trim
<1>3. CASE role = "gift_scene"
  BY <1>1, <1>3 DEF FallbackSubtitle, Trim
<1>4. CASE role = "process_or_quality"
  BY <1>4 DEF FallbackSubtitle
<1>5. CASE role \notin {"hero", "gift_scene", "process_or_quality"}
  BY <1>5 DEF FallbackSubtitle
<1>6. QED
  BY <1>2, <1>3, <1>4, <1>5

(* Whatever the model wrote and whatever the director's points are.          *)
LEMMA BundleFits ==
  ASSUME NEW task \in [product : Nat, brand : Nat], NEW id, NEW role, NEW given, NEW points \in Seq(Nat),
         given.points \in Seq(Nat), NEW share, NEW frame
  PROVE  LET shot == PromptShot(id, role, CopyBundle(task, role, given, points), share, frame)
         IN  shot.id = id /\ shot.role = role /\ PolicyHolds(shot) /\ shot.copy.points \in Seq(Nat)
<1> DEFINE bundle == CopyBundle(task, role, given, points)
           shot == PromptShot(id, role, bundle, share, frame)
<1>1. shot.id = id /\ shot.role = role /\ shot.copy = bundle
  BY DEF PromptShot
<1>2. ASSUME ~CopyPolicy(role).render
      PROVE  PolicyHolds(shot) /\ shot.copy.points \in Seq(Nat)
  <2>1. bundle = NoCopy
    BY <1>2 DEF CopyBundle
  <2>2. NoCopy.points \in Seq(Nat)
    BY DEF NoCopy
  <2> HIDE DEF shot, bundle
  <2>3. PolicyHolds(shot)
    BY <1>1, <1>2, <2>1 DEF PolicyHolds, PromptTexts, OverlayTexts, AsksForNoText, NoCopy
  <2>4. QED
    BY <1>1, <2>1, <2>2, <2>3
<1>3. ASSUME CopyPolicy(role).render
      PROVE  PolicyHolds(shot) /\ shot.copy.points \in Seq(Nat)
  <2>1. bundle.render = TRUE
    BY <1>3 DEF CopyBundle
  <2>2. bundle.title \in 3..8 /\ bundle.subtitle \in 8..15
    <3>1. /\ bundle.title = Allowed(given.title, 4..8, FallbackTitle(task, role))
          /\ bundle.subtitle = Allowed(given.subtitle, 8..15, FallbackSubtitle(task, role))
      BY <1>3 DEF CopyBundle
    <3>2. FallbackTitle(task, role) \in 3..8 /\ FallbackSubtitle(task, role) \in 8..15
      BY FallbackTitleFits, FallbackSubtitleFits
    <3>3. QED
      BY <3>1, <3>2 DEF Allowed
  <2>3. /\ bundle.points \in Seq(Nat) /\ Len(bundle.points) <= 2
        /\ \A n \in DOMAIN bundle.points : bundle.points[n] \in 1..8
    <3>1. bundle.points = NormalizePoints(given.points, points)
      BY <1>3 DEF CopyBundle
    <3> HIDE DEF bundle
    <3>2. QED
      BY <3>1, PointsFit
  <2> HIDE DEF shot, bundle
  <2>4. /\ PromptTexts(shot).title = bundle.title /\ PromptTexts(shot).subtitle = bundle.subtitle
        /\ PromptTexts(shot).points = bundle.points
    BY <1>1, <2>1 DEF PromptTexts
  <2>5. PolicyHolds(shot)
    BY <1>1, <1>3, <2>2, <2>3, <2>4 DEF PolicyHolds
  <2>6. QED
    BY <1>1, <2>3, <2>5
<1>4. QED
  BY <1>1, <1>2, <1>3

(* What the node takes from an answer is a shot of the answer.               *)
LEMMA LastMatching ==
  ASSUME NEW T, NEW answers \in Seq(T), NEW id, Matching(answers, id) # <<>>
  PROVE  Last(Matching(answers, id)) \in T
<1>1. Matching(answers, id) \in Seq(T)
  BY AmongFacts DEF Matching
<1>2. QED
  BY <1>1 DEF Last

(* The two plans of the nodes themselves, and what they keep of an answer.   *)
LEMMA OwnDirectorFits ==
  ASSUME TypeOK
  PROVE  DirectorFits(OwnDirector) /\ (\A k \in DOMAIN OwnDirector : DOMAIN OwnDirector[k] =
             {"id", "role", "points", "strategy", "density", "render", "share"})
<1>1. request.shots \in 1..12
  BY RequestTyped
<1>2. FollowsSeries(OwnDirector) /\ (\A k \in DOMAIN OwnDirector : DOMAIN OwnDirector[k] =
             {"id", "role", "points", "strategy", "density", "render", "share"})
  BY <1>1 DEF OwnDirector, FallbackDirector, FollowsSeries, ShotCount, Count
<1>3. \A k \in DOMAIN OwnDirector : OwnDirector[k].points = TemplatePoints(DirectorRoles[k])
  BY DEF OwnDirector, FallbackDirector
<1>4. \A role : TemplatePoints(role) \in Seq(Nat)
  BY DEF TemplatePoints
<1>5. QED
  BY <1>2, <1>3, <1>4 DEF DirectorFits

(* A shot of the director keeps its place and its role.                      *)
LEMMA NormalizeKeepsSeries ==
  ASSUME NEW given, NEW own, DOMAIN own = {"id", "role", "points", "strategy", "density", "render", "share"}
  PROVE  /\ NormalizeShot(given, own).id = own.id /\ NormalizeShot(given, own).role = own.role
         /\ NormalizeShot(given, own).points = IF given.points = <<>> THEN own.points ELSE given.points
BY DEF NormalizeShot

(* What the director makes of an answer.                                     *)
LEMMA DirectorAnswerFits ==
  ASSUME TypeOK, NEW given \in Seq(DirectorShots)
  PROVE  DirectorFits(NormalizeDirector(given, OwnDirector))
<1> DEFINE new == NormalizeDirector(given, OwnDirector)
<1>1. DOMAIN OwnDirector = 1..ShotCount
  BY OwnDirectorFits DEF DirectorFits, FollowsSeries
<1>2. DOMAIN new = 1..ShotCount
  BY <1>1 DEF NormalizeDirector
<1>3. ASSUME NEW k \in 1..ShotCount
      PROVE  new[k].id = k /\ new[k].role = DirectorRoles[k] /\ new[k].points \in Seq(Nat)
  <2> DEFINE own == OwnDirector[k]
  <2>1. /\ own.id = k /\ own.role = DirectorRoles[k] /\ own.points \in Seq(Nat)
        /\ DOMAIN own = {"id", "role", "points", "strategy", "density", "render", "share"}
    BY <1>1, OwnDirectorFits DEF DirectorFits, FollowsSeries
  <2>2. new[k] = IF Matching(given, own.id) = <<>> THEN own
                 ELSE NormalizeShot(Last(Matching(given, own.id)), own)
    BY <1>1 DEF NormalizeDirector
  <2> HIDE DEF own, new
  <2>3. CASE Matching(given, own.id) = <<>>
    BY <2>1, <2>2, <2>3
  <2>4. CASE Matching(given, own.id) # <<>>
    <3> DEFINE g == Last(Matching(given, own.id))
    <3>1. g \in DirectorShots
      BY <2>4, LastMatching
    <3> HIDE DEF g
    <3>2. g.points \in Seq(Nat)
      BY <3>1 DEF DirectorShots
    <3>3. new[k] = NormalizeShot(g, own)
      BY <2>2, <2>4 DEF g
    <3>4. QED
      BY <2>1, <3>2, <3>3, NormalizeKeepsSeries
  <2>5. QED
    BY <2>3, <2>4
<1> HIDE DEF new
<1>4. DirectorFits(new)
  BY <1>2, <1>3 DEF DirectorFits, FollowsSeries
<1>5. QED
  BY <1>4 DEF new

(* The prompts the second node writes itself.                                *)
LEMMA OwnPromptFits ==
  ASSUME TypeOK, DirectorFits(director.shots)
  PROVE  PlanFits(OwnPrompt)
<1>1. request.task \in [product : Nat, brand : Nat]
  BY MainImagesAssumption DEF TypeOK, RequestType
<1>2. DOMAIN OwnPrompt = DOMAIN director.shots
  BY DEF OwnPrompt, FallbackPrompt
<1>3. ASSUME NEW k \in DOMAIN director.shots
      PROVE  /\ OwnPrompt[k].id = k /\ OwnPrompt[k].role = DirectorRoles[k] /\ PolicyHolds(OwnPrompt[k])
             /\ OwnPrompt[k].copy.points \in Seq(Nat)
  <2> DEFINE shot == director.shots[k]
             bundle == CopyBundle(request.task, shot.role, Silent, shot.points)
             share == IF shot.share = 0 /\ shot.role = "hero" THEN HeroShare ELSE shot.share
  <2>1. OwnPrompt[k] = PromptShot(shot.id, shot.role, bundle, share, request.frame)
    BY DEF OwnPrompt, FallbackPrompt
  <2>2. shot.id = k /\ shot.role = DirectorRoles[k] /\ shot.points \in Seq(Nat)
    BY DEF DirectorFits, FollowsSeries
  <2>3. Silent.points \in Seq(Nat)
    BY DEF Silent, NoCopy
  <2> HIDE DEF share
  <2>4. QED
    BY <1>1, <2>1, <2>2, <2>3, BundleFits
<1>4. DOMAIN director.shots = 1..ShotCount
  BY DEF DirectorFits, FollowsSeries
<1>5. QED
  BY <1>2, <1>3, <1>4 DEF PlanFits, FollowsSeries

(* What the second node makes of an answer.                                  *)
LEMMA PromptAnswerFits ==
  ASSUME TypeOK, NEW given \in Seq(RefineShots), NEW own, PlanFits(own)
  PROVE  PlanFits(NormalizePrompt(request.task, given, own))
<1> DEFINE new == NormalizePrompt(request.task, given, own)
<1>1. request.task \in [product : Nat, brand : Nat]
  BY MainImagesAssumption DEF TypeOK, RequestType
<1>2. DOMAIN new = DOMAIN own
  BY DEF NormalizePrompt
<1>3. ASSUME NEW k \in DOMAIN own
      PROVE  /\ new[k].id = k /\ new[k].role = DirectorRoles[k] /\ PolicyHolds(new[k])
             /\ new[k].copy.points \in Seq(Nat)
  <2> DEFINE found == Matching(given, own[k].id)
             shot == IF found = <<>> THEN [copy |-> Silent, share |-> 0, frame |-> EmptyFrame]
                     ELSE Validated(Last(found))
             share == OrElse(shot.share, own[k].share)
             frame == IF shot.frame = EmptyFrame THEN own[k].frame ELSE shot.frame
  <2>1. new[k] = PromptShot(own[k].id, own[k].role,
                            CopyBundle(request.task, own[k].role, shot.copy, own[k].copy.points),
                            share, frame)
    BY DEF NormalizePrompt
  <2>2. own[k].id = k /\ own[k].role = DirectorRoles[k] /\ own[k].copy.points \in Seq(Nat)
    BY DEF PlanFits, FollowsSeries
  <2>3. shot.copy.points \in Seq(Nat)
    <3>1. CASE found = <<>>
      <4>1. Silent.points \in Seq(Nat)
        BY DEF Silent, NoCopy
      <4>2. QED
        BY <3>1, <4>1
    <3>2. CASE found # <<>>
      <4>1. Last(found) \in RefineShots
        BY <3>2, LastMatching
      <4>2. Validated(Last(found)).copy = Last(found).copy
        BY <4>1 DEF Validated, RefineShots
      <4>3. Last(found).copy.points \in Seq(Nat)
        BY <4>1 DEF RefineShots
      <4>4. QED
        BY <3>2, <4>2, <4>3
    <3>3. QED
      BY <3>1, <3>2
  <2> HIDE DEF new, shot, share, frame
  <2>4. QED
    BY <1>1, <2>1, <2>2, <2>3, BundleFits
<1> HIDE DEF new
<1>4. PlanFits(new)
  BY <1>2, <1>3 DEF PlanFits, FollowsSeries
<1>5. QED
  BY <1>4 DEF new

(* What a node has made of an answer to its question fits.                   *)
LEMMA MadeFits ==
  ASSUME TypeOK, Planning, step = "prompt_refine_v2" => DirectorFits(director.shots), NEW given,
         step = "director_v2" => given \in Seq(DirectorShots),
         step = "prompt_refine_v2" => given \in Seq(RefineShots)
  PROVE  Fits(step, Made(step, given).shots)
<1>1. CASE step = "director_v2"
  <2>1. Made(step, given).shots = IF Real THEN NormalizeDirector(given, OwnDirector) ELSE OwnDirector
    BY <1>1 DEF Made
  <2>2. QED
    BY <1>1, <2>1, OwnDirectorFits, DirectorAnswerFits DEF Fits
<1>2. CASE step = "prompt_refine_v2"
  <2>1. Made(step, given).shots = IF Real THEN NormalizePrompt(request.task, given, OwnPrompt) ELSE OwnPrompt
    BY <1>2 DEF Made
  <2>2. PlanFits(OwnPrompt)
    BY <1>2, OwnPromptFits
  <2>3. QED
    BY <1>2, <2>1, <2>2, PromptAnswerFits DEF Fits
<1>3. QED
  BY <1>1, <1>2 DEF Planning, PlanningNodes

(* A node that ends with a plan that fits keeps the plans fitting.           *)
LEMMA FinishKeepsSeries ==
  ASSUME TypeOK, SeriesInv, Planning, NEW value, Finish(step, value), Fits(step, value.shots),
         UNCHANGED request,
         \A file \in cache' : file \in cache \/ file.torn \/ Fits(file.node, file.value.shots)
  PROVE  SeriesInv'
<1>1. \A shots : (DirectorFits(shots)' <=> DirectorFits(shots)) /\ (PlanFits(shots)' <=> PlanFits(shots))
  BY DEF DirectorFits, PlanFits, FollowsSeries, ShotCount
<1>2. \A node, shots : Fits(node, shots)' <=> Fits(node, shots)
  BY <1>1 DEF Fits
<1>3. CASE step = "director_v2"
  <2>1. director' = value /\ plan' = plan /\ DirectorFits(value.shots)
    BY <1>3 DEF Finish, Fits
  <2>2. QED
    BY <1>1, <1>2, <2>1 DEF SeriesInv
<1>4. CASE step = "prompt_refine_v2"
  <2>1. plan' = value /\ director' = director /\ PlanFits(value.shots)
    BY <1>4 DEF Finish, Fits
  <2>2. QED
    BY <1>1, <1>2, <2>1 DEF SeriesInv
<1>5. QED
  BY <1>3, <1>4 DEF Planning, PlanningNodes

(* Steps that keep the plans. *)
LEMMA SamePlans ==
  ASSUME SeriesInv, UNCHANGED <<request, director, plan>>,
         \A file \in cache' : file \in cache \/ file.torn
  PROVE  SeriesInv'
<1>1. \A shots : (DirectorFits(shots)' <=> DirectorFits(shots)) /\ (PlanFits(shots)' <=> PlanFits(shots))
  BY DEF DirectorFits, PlanFits, FollowsSeries, ShotCount
<1>2. \A node, shots : Fits(node, shots)' <=> Fits(node, shots)
  BY <1>1 DEF Fits
<1>3. QED
  BY <1>1, <1>2 DEF SeriesInv

(* No answer counts as an empty one.                                         *)
LEMMA NoAnswerFits == NoAnswer = <<>> /\ NoAnswer \in Seq(DirectorShots) /\ NoAnswer \in Seq(RefineShots)
BY DEF NoAnswer

(* The answer at hand stays one to the question of the node.                 *)
LEMMA AnswerStep ==
  ASSUME TypeOK, AnswerInv, [Next]_vars
  PROVE  AnswerInv'
<1> USE DEF NodeRaises, Ends, planned
<1>1. CASE IngestAssets
  BY <1>1 DEF AnswerInv, IngestAssets
<1>2. CASE LoadCached
  <2>1. Planning /\ ((step' = After(step) /\ answer' = NoAnswer) \/ (step' = "raised" /\ answer' = answer))
    BY <1>2 DEF LoadCached, Finish
  <2>2. QED
    BY <2>1, NoAnswerFits DEF AnswerInv, After, Planning, PlanningNodes
<1>3. CASE PlanLocally
  BY <1>3 DEF AnswerInv, PlanLocally, Finish, After, Planning, PlanningNodes, NoAnswer
<1>4. CASE AskTextModel
  <2>1. step' = step /\ Planning
    BY <1>4 DEF AskTextModel
  <2>2. answer' = answer \/ answer' \in IF step = "director_v2" THEN DirectorAnswers ELSE RefineAnswers
    BY <1>4 DEF AskTextModel
  <2>3. QED
    BY <2>1, <2>2, MainImagesAssumption DEF AnswerInv, Planning, PlanningNodes
<1>5. CASE RecordAnswer
  <2>1. Planning
    BY <1>5 DEF RecordAnswer
  <2>2. (step' = After(step) /\ answer' = NoAnswer) \/ (step' = "raised" /\ answer' = answer)
    <3>1. CASE call = "returned"
      <4>1. Finish(step, Made(step, answer))
        BY <1>5, <3>1 DEF RecordAnswer
      <4>2. QED
        BY <4>1 DEF Finish
    <3>2. CASE call # "returned"
      BY <1>5, <3>2 DEF RecordAnswer
    <3>3. QED
      BY <3>1, <3>2
  <2>3. QED
    BY <2>1, <2>2, NoAnswerFits DEF AnswerInv, After, Planning, PlanningNodes
<1>6. CASE ResolveContext \/ GenerateV2 \/ GenerateCompat \/ FinishRender
  BY <1>6 DEF AnswerInv, ResolveContext, GenerateV2, GenerateCompat, CanCall, Rendering, FinishRender
<1>7. CASE RecordV2 \/ RecordV2Fails \/ RecordCompat \/ RecordCompatFails
  BY <1>7 DEF AnswerInv, RecordV2, RecordV2Fails, RecordCompat, RecordCompatFails, Rendering
<1>8. CASE RunQc \/ Conclude \/ Export \/ StoreFails \/ Crash \/ CrashInSave
  BY <1>8 DEF AnswerInv, RunQc, Conclude, Export, StoreFails, Crash, CrashInSave
<1>9. CASE Redeliver
  BY <1>9 DEF AnswerInv, Redeliver, NoAnswer
<1>10. CASE Rest \/ UNCHANGED vars
  BY <1>10 DEF AnswerInv, Rest, vars
<1>11. QED
  BY <1>1, <1>2, <1>3, <1>4, <1>5, <1>6, <1>7, <1>8, <1>9, <1>10 DEF Next

(* Every step keeps the plans and the files of the cache fitting.            *)
LEMMA SeriesStep ==
  ASSUME TInv, PlanInv, SeriesInv, AnswerInv, [Next]_vars
  PROVE  SeriesInv'
<1> USE DEF NodeRaises, input, planned, rendering, counted, outcome, bounds
<1>0. TypeOK
  BY DEF TInv
<1>a. step = "prompt_refine_v2" => DirectorFits(director.shots)
  <2>1. step = "prompt_refine_v2" => DOMAIN director.shots = 1..ShotCount /\ 1 \in 1..ShotCount
    BY <1>0, RequestTyped DEF PlanInv, ShotCount, Count
  <2>2. DOMAIN <<>> = {}
    OBVIOUS
  <2>3. QED
    BY <2>1, <2>2 DEF SeriesInv
<1>1. CASE LoadCached
  <2>1. PICK file \in CacheFile(step) :
          IF file.torn THEN NodeRaises /\ UNCHANGED <<director, plan, answer>>
          ELSE Finish(step, file.value) /\ UNCHANGED status
    BY <1>1 DEF LoadCached
  <2>2. UNCHANGED <<request, release, cache>> /\ Planning
    BY <1>1 DEF LoadCached
  <2>3. CASE file.torn
    BY <2>1, <2>2, <2>3, SamePlans
  <2>4. CASE ~file.torn
    <3>1. file \in cache /\ file.node = step
      BY <2>1 DEF CacheFile
    <3>2. Fits(step, file.value.shots)
      BY <2>4, <3>1 DEF SeriesInv
    <3>3. QED
      BY <1>0, <2>1, <2>2, <2>4, <3>2, FinishKeepsSeries
  <2>5. QED
    BY <2>3, <2>4
<1>2. CASE PlanLocally
  <2> DEFINE value == Made(step, NoAnswer)
  <2>1. Planning /\ Finish(step, value) /\ cache' = Cached(step, FALSE, value) /\ UNCHANGED <<request, release>>
    BY <1>2 DEF PlanLocally
  <2>2. Fits(step, value.shots)
    BY <1>0, <1>a, <2>1, NoAnswerFits, MadeFits
  <2> HIDE DEF value
  <2>3. \A file \in cache' : file \in cache \/ Fits(file.node, file.value.shots)
    BY <2>1, <2>2 DEF Cached
  <2>4. QED
    BY <1>0, <2>1, <2>2, <2>3, FinishKeepsSeries
<1>3. CASE RecordAnswer
  <2> DEFINE value == Made(step, answer)
  <2>1. Planning /\ UNCHANGED <<request, release>>
    BY <1>3 DEF RecordAnswer
  <2>2. Fits(step, value.shots)
    BY <1>0, <1>a, <2>1, MadeFits DEF AnswerInv
  <2>3. CASE call = "returned"
    <3>1. Finish(step, value) /\ cache' = Cached(step, FALSE, value)
      BY <1>3, <2>3 DEF RecordAnswer
    <3> HIDE DEF value
    <3>2. \A file \in cache' : file \in cache \/ Fits(file.node, file.value.shots)
      BY <2>2, <3>1 DEF Cached
    <3>3. QED
      BY <1>0, <2>1, <2>2, <3>1, <3>2, FinishKeepsSeries
  <2>4. CASE call # "returned"
    BY <1>3, <2>4, SamePlans DEF RecordAnswer
  <2>5. QED
    BY <2>3, <2>4
<1>4. CASE IngestAssets \/ AskTextModel \/ ResolveContext \/ GenerateV2 \/ RecordV2 \/ RecordV2Fails
  BY <1>4, SamePlans DEF IngestAssets, AskTextModel, ResolveContext, GenerateV2, RecordV2, RecordV2Fails
<1>5. CASE GenerateCompat \/ RecordCompat \/ RecordCompatFails \/ FinishRender \/ RunQc \/ Conclude \/ Export
  BY <1>5, SamePlans DEF GenerateCompat, RecordCompat, RecordCompatFails, FinishRender, RunQc, Conclude, Export
<1>6. CASE StoreFails \/ Crash \/ Rest \/ UNCHANGED vars
  BY <1>6, SamePlans DEF StoreFails, Crash, Rest, vars
<1>7. CASE CrashInSave
  <2>1. UNCHANGED <<request, director, plan>> /\ cache' = Cached(step, TRUE, None)
    BY <1>7 DEF CrashInSave
  <2>2. \A file \in cache' : file \in cache \/ file.torn
    BY <2>1 DEF Cached
  <2>3. QED
    BY <2>1, <2>2, SamePlans
<1>8. CASE Redeliver
  <2>1. director' = None /\ plan' = None /\ UNCHANGED <<request, cache>>
    BY <1>8 DEF Redeliver
  <2>2. \A node, shots : Fits(node, shots)' <=> Fits(node, shots)
    BY <2>1 DEF Fits, DirectorFits, PlanFits, FollowsSeries, ShotCount
  <2>3. QED
    BY <2>1, <2>2 DEF SeriesInv, None
<1>9. QED
  BY <1>1, <1>2, <1>3, <1>4, <1>5, <1>6, <1>7, <1>8 DEF Next

(* The photos of a request: one on white first, a detail if there is one,    *)
(* never one of a style.                                                     *)
LEMMA OfTypesFacts ==
  ASSUME NEW T, NEW photos \in Seq(T), NEW types
  PROVE  /\ OfTypes(photos, types) \in Seq(T)
         /\ ToSet(OfTypes(photos, types)) = {p \in ToSet(photos) : p[1] \in types}
BY AmongFacts DEF OfTypes

(* The photos that are not among others.                                     *)
LEMMA WithoutFacts ==
  ASSUME NEW T, NEW photos \in Seq(T), NEW others
  PROVE  /\ Without(photos, others) \in Seq(T)
         /\ ToSet(Without(photos, others)) = ToSet(photos) \ ToSet(others)
BY AmongFacts DEF Without

(* A sequence is empty just when it has no elements, and begins with one.    *)
LEMMA ElementsOf ==
  ASSUME NEW T, NEW s \in Seq(T)
  PROVE  /\ s = <<>> <=> ToSet(s) = {}
         /\ s # <<>> => Len(s) > 0 /\ s[1] \in ToSet(s)
         /\ \A n \in DOMAIN s : s[n] \in ToSet(s)
         /\ Len(s) \in Nat /\ DOMAIN s = 1..Len(s)
<1>1. Len(s) \in Nat /\ DOMAIN s = 1..Len(s)
  OBVIOUS
<1>2. \A n \in DOMAIN s : s[n] \in ToSet(s)
  BY DEF ToSet
<1>3. s # <<>> => Len(s) > 0 /\ 1 \in DOMAIN s
  BY <1>1
<1>4. s = <<>> => ToSet(s) = {}
  BY DEF ToSet
<1>5. QED
  BY <1>1, <1>2, <1>3, <1>4

(* A cut list has its length, and is the beginning of the list.              *)
IsCut(T, n, s, u) ==
    /\ u \in Seq(T) /\ Len(u) = IF Len(s) < n THEN Len(s) ELSE n
    /\ \A i \in 1..Len(u) : u[i] = s[i]
    /\ ToSet(u) \subseteq ToSet(s)

(* ... at any length.                                                        *)
LEMMA CutFacts ==
  ASSUME NEW T, NEW n \in Nat, NEW s \in Seq(T)
  PROVE  IsCut(T, n, s, UpTo(n, s))
BY UpToFacts DEF IsCut

(* A list with another put after it.                                         *)
IsConcat(T, s, t, c) ==
    /\ c \in Seq(T) /\ Len(c) = Len(s) + Len(t)
    /\ \A i \in 1..Len(s) : c[i] = s[i]
    /\ \A i \in 1..Len(t) : c[Len(s) + i] = t[i]
    /\ ToSet(c) = ToSet(s) \cup ToSet(t)

(* ... for any two lists.                                                    *)
LEMMA ConcatIs ==
  ASSUME NEW T, NEW s \in Seq(T), NEW t \in Seq(T)
  PROVE  IsConcat(T, s, t, s \o t)
BY ConcatFacts DEF IsConcat

(* The first photo of a list.                                                *)
LEMMA FirstOf ==
  ASSUME NEW T, NEW s \in Seq(T)
  PROVE  /\ UpTo(1, s) \in Seq(T) /\ ToSet(UpTo(1, s)) \subseteq ToSet(s)
         /\ s # <<>> => Len(UpTo(1, s)) = 1 /\ UpTo(1, s)[1] = s[1] /\ UpTo(1, s) # <<>>
<1> DEFINE u == UpTo(1, s)
<1>1. 1 \in Nat
  OBVIOUS
<1>2. IsCut(T, 1, s, u)
  BY <1>1, CutFacts, Zenon
<1>3. s # <<>> => Len(s) > 0 /\ Len(s) \in Nat
  BY ElementsOf
<1> HIDE DEF u
<1>4. /\ u \in Seq(T) /\ ToSet(u) \subseteq ToSet(s)
      /\ s # <<>> => Len(u) = 1 /\ u[1] = s[1] /\ u # <<>>
  BY <1>2, <1>3 DEF IsCut
<1>5. QED
  BY <1>4 DEF u

(* The choice: the first photo on white, then the first detail.              *)
LEMMA ReferencesFit ==
  ASSUME NEW T, NEW photos \in Seq(T), \E p \in ToSet(photos) : p[1] = "white_bg"
  PROVE  LET refs == SelectProductReferences(photos)
         IN  /\ refs \in Seq(T) /\ Len(refs) >= 1 /\ Len(refs) <= 2
             /\ \A n \in DOMAIN refs : refs[n][1] # Style
             /\ refs[1][1] \in WhiteBackground
             /\ (\E p \in ToSet(photos) : p[1] = "detail") => \E n \in DOMAIN refs : refs[n][1] = "detail"
<1> DEFINE products == Without(photos, OfTypes(photos, {Style}))
           white == OfTypes(products, WhiteBackground)
           details == OfTypes(products, {"detail"})
           main == UpTo(1, IF white = <<>> THEN products ELSE white)
           one == UpTo(1, details)
           detail == Without(one, main)
           chosen == main \o detail
           others == Without(products, chosen)
           all == chosen \o others
           refs == UpTo(2, all)
<1>1. SelectProductReferences(photos) = refs
  BY DEF SelectProductReferences
<1>2. /\ products \in Seq(T)
      /\ ToSet(products) = {p \in ToSet(photos) : p[1] # Style}
  <2> DEFINE styles == OfTypes(photos, {Style})
  <2>1. ToSet(styles) = {p \in ToSet(photos) : p[1] \in {Style}}
    BY OfTypesFacts
  <2>2. products \in Seq(T) /\ ToSet(products) = ToSet(photos) \ ToSet(styles)
    BY WithoutFacts
  <2> HIDE DEF products, styles
  <2>3. QED
    BY <2>1, <2>2
<1> HIDE DEF products
<1>3. white \in Seq(T) /\ ToSet(white) = {p \in ToSet(products) : p[1] \in WhiteBackground}
  BY <1>2, OfTypesFacts
<1>4. details \in Seq(T) /\ ToSet(details) = {p \in ToSet(products) : p[1] = "detail"}
  BY <1>2, OfTypesFacts
<1> HIDE DEF white, details
<1>5. white # <<>>
  <2>1. PICK p \in ToSet(photos) : p[1] = "white_bg"
    OBVIOUS
  <2>2. p \in ToSet(white)
    BY <1>2, <1>3, <2>1 DEF Style, WhiteBackground
  <2>3. QED
    BY <1>3, <2>2, ElementsOf
<1>6. white[1] \in ToSet(white)
  BY <1>3, <1>5, ElementsOf
<1>7. main \in Seq(T) /\ Len(main) = 1 /\ main[1] = white[1] /\ ToSet(main) \subseteq ToSet(white)
  <2>1. main = UpTo(1, white)
    BY <1>5
  <2> HIDE DEF main
  <2>2. QED
    BY <1>3, <1>5, <2>1, FirstOf
<1>8. one \in Seq(T) /\ ToSet(one) \subseteq ToSet(details) /\ (details # <<>> => one # <<>>)
  BY <1>4, FirstOf
<1> HIDE DEF main, one
<1>9. detail \in Seq(T) /\ ToSet(detail) = ToSet(one) \ ToSet(main)
  BY <1>8, WithoutFacts
<1> HIDE DEF detail
<1>10. ToSet(detail) = ToSet(one)
  BY <1>3, <1>4, <1>7, <1>8, <1>9 DEF WhiteBackground
<1>11. details # <<>> => Len(detail) > 0
  <2>1. details # <<>> => ToSet(one) # {}
    BY <1>8, ElementsOf
  <2>2. QED
    BY <1>9, <1>10, <2>1, ElementsOf
<1>12. /\ chosen \in Seq(T) /\ Len(chosen) = 1 + Len(detail) /\ Len(detail) \in Nat
       /\ chosen[1] = white[1] /\ (Len(detail) > 0 => chosen[2] = detail[1])
       /\ ToSet(chosen) = ToSet(main) \cup ToSet(detail)
  <2>0. IsConcat(T, main, detail, chosen)
    BY <1>7, <1>9, ConcatIs, Zenon
  <2> HIDE DEF chosen
  <2>1. /\ chosen \in Seq(T) /\ Len(chosen) = Len(main) + Len(detail)
        /\ \A i \in 1..Len(main) : chosen[i] = main[i]
        /\ \A i \in 1..Len(detail) : chosen[Len(main) + i] = detail[i]
        /\ ToSet(chosen) = ToSet(main) \cup ToSet(detail)
    BY <2>0 DEF IsConcat
  <2>2. Len(detail) \in Nat
    BY <1>9
  <2>3. 1 \in 1..Len(main) /\ (Len(detail) > 0 => 1 \in 1..Len(detail) /\ Len(main) + 1 = 2)
    BY <1>7, <2>2
  <2>4. Len(detail) > 0 => chosen[Len(main) + 1] = detail[1]
    BY <2>1, <2>3, Zenon
  <2>5. QED
    BY <1>7, <2>1, <2>2, <2>3, <2>4
<1> HIDE DEF chosen
<1>13. others \in Seq(T) /\ ToSet(others) \subseteq ToSet(products)
  BY <1>2, <1>12, WithoutFacts
<1> HIDE DEF others
<1>14. /\ all \in Seq(T) /\ Len(all) >= Len(chosen) /\ Len(all) \in Nat
       /\ \A i \in 1..Len(chosen) : all[i] = chosen[i]
       /\ ToSet(all) \subseteq ToSet(products)
  <2>0. IsConcat(T, chosen, others, all)
    BY <1>12, <1>13, ConcatIs, Zenon
  <2> HIDE DEF all
  <2>1. /\ all \in Seq(T) /\ Len(all) = Len(chosen) + Len(others)
        /\ \A i \in 1..Len(chosen) : all[i] = chosen[i]
        /\ ToSet(all) = ToSet(chosen) \cup ToSet(others)
    BY <2>0 DEF IsConcat
  <2>2. Len(chosen) \in Nat /\ Len(others) \in Nat
    BY <1>12, <1>13
  <2>3. ToSet(main) \subseteq ToSet(products) /\ ToSet(detail) \subseteq ToSet(products)
    BY <1>3, <1>4, <1>7, <1>8, <1>10
  <2>4. ToSet(all) \subseteq ToSet(products)
    BY <1>12, <1>13, <2>1, <2>3
  <2>5. QED
    BY <2>1, <2>2, <2>4
<1> HIDE DEF all
<1>15. /\ refs \in Seq(T) /\ Len(refs) = IF Len(all) < 2 THEN Len(all) ELSE 2
       /\ \A i \in 1..Len(refs) : refs[i] = all[i]
       /\ ToSet(refs) \subseteq ToSet(all)
  <2>1. 2 \in Nat
    OBVIOUS
  <2>2. IsCut(T, 2, all, refs)
    BY <1>14, <2>1, CutFacts, Zenon
  <2> HIDE DEF refs
  <2>3. QED
    BY <2>2 DEF IsCut
<1> HIDE DEF refs
<1>16. /\ Len(refs) >= 1 /\ Len(refs) <= 2 /\ refs[1] = white[1]
       /\ Len(detail) > 0 => Len(refs) = 2 /\ refs[2] = detail[1]
  <2>1. Len(refs) >= 1 /\ Len(refs) <= 2 /\ (Len(detail) > 0 => Len(refs) = 2)
    BY <1>12, <1>14, <1>15
  <2>2. 1 \in 1..Len(refs) /\ 1 \in 1..Len(chosen)
    BY <1>12, <2>1
  <2>3. ASSUME Len(detail) > 0
        PROVE  2 \in 1..Len(refs) /\ 2 \in 1..Len(chosen)
    <3>1. Len(refs) = 2
      BY <2>1, <2>3
    <3>2. \A m, n \in Nat : n > 0 /\ m = 1 + n => 2 \in 1..m
      OBVIOUS
    <3>3. 2 \in 1..Len(chosen)
      BY <1>12, <2>3, <3>2
    <3>4. QED
      BY <3>1, <3>3
  <2>4. refs[1] = white[1]
    BY <1>12, <1>14, <1>15, <2>2
  <2>5. Len(detail) > 0 => refs[2] = detail[1]
    BY <1>12, <1>14, <1>15, <2>3
  <2>6. QED
    BY <2>1, <2>4, <2>5
<1>17. \A n \in DOMAIN refs : refs[n][1] # Style
  <2>1. \A n \in DOMAIN refs : refs[n] \in ToSet(products)
    BY <1>14, <1>15, ElementsOf
  <2>2. QED
    BY <1>2, <2>1
<1>18. refs[1][1] \in WhiteBackground
  BY <1>3, <1>6, <1>16
<1>19. ASSUME NEW p \in ToSet(photos), p[1] = "detail"
       PROVE  \E n \in DOMAIN refs : refs[n][1] = "detail"
  <2>1. p \in ToSet(details)
    BY <1>2, <1>4, <1>19 DEF Style
  <2>2. details # <<>>
    BY <1>4, <2>1, ElementsOf
  <2>3. Len(detail) > 0 /\ detail[1] \in ToSet(detail)
    BY <1>9, <1>11, <2>2, ElementsOf
  <2>4. 2 \in DOMAIN refs /\ refs[2] = detail[1]
    BY <1>15, <1>16, <2>3
  <2>5. detail[1][1] = "detail"
    BY <1>4, <1>8, <1>10, <2>3
  <2>6. QED
    BY <2>4, <2>5
<1>20. QED
  BY <1>1, <1>15, <1>16, <1>17, <1>18, <1>19

(* What the payload of a request shows.                                      *)
LEMMA PayloadFits ==
  ASSUME TypeOK, NEW shot
  PROVE  AnchorHolds(PayloadOf(shot))
<1> DEFINE T == STRING \X Nat
           photos == request.photos
           refs == SelectProductReferences(photos)
           styles == SelectStyleReferences(photos)
           payload == PayloadOf(shot)
<1>1. photos \in Seq(T) /\ photos # <<>> /\ photos[1][1] = "white_bg" /\ request.route \in {"mock", "banana2", "runapi_gemini31"}
  <2>1. request \in RequestType
    BY MainImagesAssumption DEF TypeOK
  <2>2. request.photos \in PhotoLists /\ request.route \in {"mock", "banana2", "runapi_gemini31"}
    BY <2>1 DEF RequestType
  <2>3. QED
    BY <2>2 DEF PhotoLists
<1>2. /\ payload.products = IF request.route = "mock" THEN <<>> ELSE UpTo(PhotoLimit(request.route), refs)
      /\ payload.styles = IF request.route = "mock" THEN <<>> ELSE UpTo(StyleLimit, styles)
  BY DEF PayloadOf, RequestPayload
<1> HIDE DEF T, photos
<1>3. \E p \in ToSet(photos) : p[1] = "white_bg"
  <2>1. photos[1] \in ToSet(photos)
    BY <1>1, ElementsOf
  <2>2. QED
    BY <1>1, <2>1
<1>4. /\ refs \in Seq(T) /\ Len(refs) >= 1 /\ Len(refs) <= 2
      /\ \A n \in DOMAIN refs : refs[n][1] # Style
      /\ refs[1][1] \in WhiteBackground
      /\ (\E p \in ToSet(photos) : p[1] = "detail") => \E n \in DOMAIN refs : refs[n][1] = "detail"
  BY <1>1, <1>3, ReferencesFit
<1>5. styles \in Seq(T) /\ \A p \in ToSet(styles) : p[1] = Style
  <2> DEFINE all == OfTypes(photos, {Style})
  <2>1. all \in Seq(T) /\ ToSet(all) = {p \in ToSet(photos) : p[1] \in {Style}}
    BY <1>1, OfTypesFacts
  <2>2. styles = UpTo(2, all)
    BY DEF SelectStyleReferences
  <2> HIDE DEF all, styles
  <2>3. styles \in Seq(T) /\ ToSet(styles) \subseteq ToSet(all)
    BY <2>1, <2>2, UpToFacts
  <2>4. QED
    BY <2>1, <2>3
<1> HIDE DEF refs, styles, payload
<1>6. Supplied = ToSet(photos)
  BY DEF Supplied, photos
<1>7. CASE request.route = "mock"
  <2>1. payload.products = <<>> /\ payload.styles = <<>> /\ DOMAIN <<>> = {}
    BY <1>2, <1>7
  <2>2. AnchorHolds(payload)
    BY <1>7, <2>1 DEF AnchorHolds
  <2>3. QED
    BY <2>2 DEF payload
<1>8. CASE request.route # "mock"
  <2> DEFINE limit == PhotoLimit(request.route)
  <2>1. limit \in Nat /\ limit >= 2
    BY DEF PhotoLimit
  <2> HIDE DEF limit
  <2>2. payload.products = UpTo(limit, refs) /\ payload.styles = UpTo(2, styles)
    BY <1>2, <1>8 DEF limit, StyleLimit
  <2>3. /\ payload.products \in Seq(T) /\ Len(payload.products) = IF Len(refs) < limit THEN Len(refs) ELSE limit
        /\ \A i \in 1..Len(payload.products) : payload.products[i] = refs[i]
    BY <1>4, <2>1, <2>2, UpToFacts
  <2>4. payload.styles \in Seq(T) /\ ToSet(payload.styles) \subseteq ToSet(styles)
    BY <1>5, <2>2, UpToFacts
  <2>5. DOMAIN payload.products = DOMAIN refs /\ Len(payload.products) >= 1
        /\ \A n \in DOMAIN refs : payload.products[n] = refs[n]
    BY <1>4, <2>1, <2>3
  <2>6. \A n \in DOMAIN payload.styles : payload.styles[n][1] = Style
    BY <1>5, <2>4, ElementsOf
  <2>7. payload.products # <<>> /\ 1 \in DOMAIN refs
    BY <1>4, <2>3, <2>5
  <2>8. AnchorHolds(payload)
    BY <1>4, <1>6, <2>5, <2>6, <2>7 DEF AnchorHolds
  <2>9. QED
    BY <2>8 DEF payload
<1>9. QED
  BY <1>7, <1>8

(* The pictures of a plan are those of the series, a picture of a textless   *)
(* role carries no text, the texts of the others keep their lengths and the  *)
(* points their number, and each request shows the product on white, and a   *)
(* detail if there is one: for every answer of the text model, every name,   *)
(* every list of photos, every file of the cache and every delivery          *)
(* (prompt_refine_v2._resolve_copy_bundle, reference_selector).              *)
THEOREM PolicyIsFollowed == Spec => []RequestsFollowPolicy
<1>1. Init => TInv /\ PlanInv /\ SeriesInv /\ AnswerInv
  <2>1. Init => SeriesInv /\ AnswerInv
    BY DEF Init, SeriesInv, AnswerInv, None, NoAnswer
  <2>2. QED
    BY <2>1, TypeInit, PlanInit
<1>2. TInv /\ PlanInv /\ SeriesInv /\ AnswerInv /\ [Next]_vars => (TInv /\ PlanInv /\ SeriesInv /\ AnswerInv)'
  <2>1. TInv => TypeOK
    BY DEF TInv
  <2>2. QED
    BY <2>1, TypeStep, PlanStep, SeriesStep, AnswerStep
<1>3. TInv /\ SeriesInv => RequestsFollowPolicy
  <2> SUFFICES ASSUME TypeOK, SeriesInv, plan.shots # <<>> PROVE RequestsFollowPolicy
    BY DEF TInv, RequestsFollowPolicy
  <2>1. PlanFits(plan.shots)
    BY DEF SeriesInv
  <2>2. \A shot : AnchorHolds(PayloadOf(shot))
    BY PayloadFits
  <2>3. QED
    BY <2>1, <2>2 DEF PlanFits, FollowsSeries, ShotCount, RequestsFollowPolicy
<1>4. QED
  BY <1>1, <1>2, <1>3, PTL DEF Spec
=============================================================================
