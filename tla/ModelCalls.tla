----------------------------- MODULE ModelCalls -----------------------------
(***************************************************************************)
(* What a call of a text or an image model may do, as the nodes of the     *)
(* workflow see it (engine/providers, engine/domain/usage.py).  The        *)
(* services behind the calls are external: an answer is any the client     *)
(* code tells apart.                                                       *)
(***************************************************************************)
EXTENDS Integers, Filters

(* banana2 has two ways to the model, chosen by the keys it has. *)
Transport(keys) ==
    IF "google" \in keys THEN "google_official_sdk" ELSE IF "runapi" \in keys THEN "runapi" ELSE "none"

SupportedFrames == {"1:1", "3:4", "4:3", "16:9", "9:16", "1:3"} \X {"2K"}
DefaultFrame == <<"1:1", "2K">>
Supported(frame) == frame \in SupportedFrames

-----------------------------------------------------------------------------
(* Usage records: requests to the model, and images it returned. *)

Snapshot(requests, images) == [requests |-> requests, images |-> images]
Empty == Snapshot(0, 0)
Unavailable == Snapshot(1, 0)
OneImage == Snapshot(1, 1)

Merged(s, t) == Snapshot(s.requests + t.requests, s.images + t.images)

(* The usage a provider remembers of its last call; none before the first.   *)
NoSnapshot == Snapshot(-1, 0)
ResolveUsage(lastUsage) == IF lastUsage = NoSnapshot THEN Unavailable ELSE lastUsage

NoMetrics == [events |-> 0, failed |-> 0, usage |-> Empty]

(* usage_summary.json is computed again from all events after each append.   *)
Summarize(metrics, usage, success) ==
    [events |-> metrics.events + 1,
     failed |-> metrics.failed + (IF success THEN 0 ELSE 1),
     usage |-> Merged(metrics.usage, usage)]

-----------------------------------------------------------------------------
(* A structured call of the text model. *)

MaxAttempts == 2

(* A post whose connection fails or times out is sent a second time. *)
PostWithRetry ==
    {posts \in UNION {[1..n -> {"response", "lost"}] : n \in 1..MaxAttempts} :
        /\ \A n \in 1..(Len(posts) - 1) : posts[n] = "lost"
        /\ posts[Len(posts)] = "response" \/ Len(posts) = MaxAttempts}

(* A body: refused by status; not JSON, or without a message; a text that is *)
(* no JSON, JSON in prose, JSON of another schema, and the schema asked for. *)
Bodies == {"refused", "not_json", "no_message", "prose", "fenced", "other_schema", "answer"}

(* The part from the first bracket to the last is parsed when the whole is not. *)
ParseStructuredOutput(body) == IF body = "fenced" THEN "answer" ELSE body

GenerateStructured(posts, body) ==
    [sends |-> Len(posts),
     answered |-> posts[Len(posts)] = "response" /\ ParseStructuredOutput(body) = "answer"]

(* Whatever happens, the provider reports one request. *)
TextUsage == Unavailable

(* Without a key nothing is sent.                                            *)
TextCalls(keys) ==
    IF "runapi" \in keys
    THEN {GenerateStructured(posts, body) : posts \in PostWithRetry, body \in Bodies}
    ELSE {[sends |-> 0, answered |-> FALSE]}

-----------------------------------------------------------------------------
(* A call for one image. *)

(* sends: requests made; lastUsage: what the provider remembers afterwards.  *)
ImageCall(sends, returned, lastUsage) ==
    [sends |-> sends, returned |-> returned, lastUsage |-> lastUsage]

(* What comes back: no answer, an answer refused by status, no JSON (RunAPI  *)
(* only), no image in it, the image, or the address of a file that can or    *)
(* cannot be fetched.                                                        *)
Replies == {"lost", "refused", "not_json", "empty", "inline", "file", "lost_file"}

ExtractImageBytes(reply) == reply \in {"inline", "file"}

ViaGoogle(reply) == reply \notin {"lost", "refused"} /\ ExtractImageBytes(reply)
ViaRunapi(reply) == reply \notin {"lost", "refused", "not_json"} /\ ExtractImageBytes(reply)

(* Bytes are counted as one image, whatever they are.                        *)
GenerateSingle(transport, reply) ==
    LET got == IF transport = "google_official_sdk" THEN ViaGoogle(reply) ELSE ViaRunapi(reply)
    IN  [bytes |-> got, usage |-> IF got THEN OneImage ELSE Unavailable]

(* The bytes are written to generated/ and then read as a picture.           *)
WriteGeneratedImage(single, isPicture) == ImageCall(1, single.bytes /\ isPicture, single.usage)

Banana2Images(keys) ==
    {WriteGeneratedImage(GenerateSingle(Transport(keys), reply), isPicture)
        : reply \in Replies, isPicture \in BOOLEAN}

(* The other provider has RunAPI only, and raises without a key before it    *)
(* has remembered anything.  It counts its image before it looks for one.    *)
GenerateSingleRunapi(reply) ==
    [bytes |-> ViaRunapi(reply),
     usage |-> IF reply \in {"lost", "refused", "not_json"} THEN Unavailable ELSE OneImage]

RunapiImages(keys, lastUsage) ==
    IF "runapi" \notin keys THEN {ImageCall(0, FALSE, lastUsage)}
    ELSE {WriteGeneratedImage(GenerateSingleRunapi(reply), isPicture)
            : reply \in Replies, isPicture \in BOOLEAN}

(* The mock copies a sample file in the size asked for and counts nothing.   *)
CopySample(frame) == ImageCall(0, Supported(frame), Empty)

GenerateImages(route, keys, frame, lastUsage) ==
    CASE route = "mock" -> {CopySample(frame)}
      [] route = "banana2" -> Banana2Images(keys)
      [] OTHER -> RunapiImages(keys, lastUsage)

(* How many photos a request carries at most. *)
PhotoLimit(route) == IF route = "banana2" THEN 4 ELSE 2
StyleLimit == 2

(* The parts of a request, in their order: the text, photos of the product,  *)
(* photos of the style.  `quiet': the prompt asks for a picture without text. *)
RequestPayload(route, texts, quiet, products, styles) ==
    [texts |-> texts, quiet |-> quiet,
     products |-> IF route = "mock" THEN <<>> ELSE UpTo(PhotoLimit(route), products),
     styles |-> IF route = "mock" THEN <<>> ELSE UpTo(StyleLimit, styles)]
=============================================================================
