------------------------------- MODULE ImageJob -------------------------------
(* One image job, from the checks of the API (image_options.py, main.py and    *)
(* security.py) through operations.py and image_pipeline.py to the requests    *)
(* the upscaler and the CPU image service get.  Sizes are in megapixels.       *)
EXTENDS Naturals, Sequences, FiniteSets, SequencesExt

CONSTANTS
    ImageRequests,    \* what clients ask for
    MaxPixels,   \* MAX_IMAGE_PIXELS of the API, MAX_INPUT of the services
    MaxOutput,   \* MAX_UPSCALE_OUTPUT_PIXELS of the API, MAX_OUTPUT of the upscaler
    FacePixels   \* 32 megapixels

ASSUME ImageAssumption ==
    /\ {MaxPixels, MaxOutput, FacePixels} \subseteq Nat
    /\ \A r \in ImageRequests :
         /\ r.op \in {"upscale", "upscale-preview", "image-enhance", "image-pipeline", "remove-background"}
         /\ {r.scale, r.face} \subseteq Nat /\ {r.enhance, r.remove} \subseteq BOOLEAN
         /\ r.files \in Seq(Nat) /\ r.files # <<>>

VARIABLES
    req,      \* [op, scale, model, face, enhance, remove, color, format, files]
    cpuUrl,   \* ENHANCE_URL is set
    step,     \* "options", "files", "stages", "waiting", "package", "limit" or "over"
    status,   \* "none", "refused", "succeeded", "failed" or "cancelled"
    todo,     \* the stages the current file has yet to go through
    sent,     \* per file begun, the requests sent for it
    image,    \* the current file: [factor, backdrop]
    made,     \* per file finished, the image saved
    output    \* what is in the output directory

imageVars == <<req, cpuUrl, step, status, todo, sent, image, made, output>>

Default == 0  \* a scale that is left out

-----------------------------------------------------------------------------
(* The API                                                                     *)

Scale(r) ==
    IF r.scale # Default THEN r.scale
    ELSE IF r.op \in {"image-enhance", "image-pipeline"} THEN 1 ELSE 2

\* validate_image_options.  (Wrong: the photo model at any scale.)
ValidOptionsAnyPhoto(r) ==
    /\ Scale(r) \in {1, 2, 4}
    /\ r.model \in {"standard", "photo", "detail"}
    /\ r.op \in {"upscale", "upscale-preview"} => Scale(r) # 1
    /\ r.op = "remove-background" => r.format # "jpeg"
ValidOptions(r) ==
    /\ Scale(r) \in {1, 2, 4}
    /\ r.model \in {"standard", "photo", "detail"}
    /\ r.model = "photo" /\ Scale(r) > 1 => Scale(r) = 2
    /\ r.op \in {"upscale", "upscale-preview"} => Scale(r) # 1
    /\ r.op = "remove-background" => r.format # "jpeg"

\* The checks of an uploaded image; no pixels stands for a crop of a preview's size.
ValidImage(r, pixels) ==
    /\ pixels <= MaxPixels
    /\ r.op \in {"upscale", "image-pipeline"} /\ Scale(r) # 1 =>
         pixels * Scale(r) * Scale(r) <= MaxOutput
    /\ r.op # "remove-background" /\ r.face # 0 => pixels * Scale(r) * Scale(r) <= FacePixels
    /\ r.op = "upscale-preview" => Len(r.files) = 1 /\ pixels = 0

ImageInit ==
    /\ req \in ImageRequests
    /\ cpuUrl \in BOOLEAN
    /\ step = "options" /\ status = "none"
    /\ todo = <<>> /\ sent = <<>> /\ made = <<>>
    /\ image = [factor |-> 1, backdrop |-> "scene"]
    /\ output = {}

CheckOptions ==
    /\ step = "options"
    /\ IF ValidOptions(req) THEN step' = "files" /\ UNCHANGED status
       ELSE step' = "over" /\ status' = "refused"
    /\ UNCHANGED <<req, cpuUrl, todo, sent, image, made, output>>

-----------------------------------------------------------------------------
(* The stages of a file                                                        *)

Upscaling(scale, model, face, format) ==
    [kind |-> "upscale", scale |-> scale, model |-> model, face |-> face, format |-> format]
Removal(format) == [kind |-> "remove", scale |-> 1, model |-> "none", face |-> 0, format |-> format]

\* image_pipeline's enhancement: faces are left to the upscaling that follows.
\* (Wrong: restored in both.)
EnhancementFaced(r) == Upscaling(1, "clean", r.face, "png")
Enhancement(r) == Upscaling(1, "clean", IF Scale(r) = 1 THEN r.face ELSE 0, "png")

\* Every stage of the pipeline hands a PNG on.  (Wrong: in the format asked for.)
HandedOnAsAsked(r) == r.format
HandedOn(r) == "png"

Pipeline(r) ==
    (IF r.remove THEN <<Removal(HandedOn(r))>> ELSE <<>>)
    \o (IF r.enhance \/ (Scale(r) = 1 /\ r.face # 0) THEN <<Enhancement(r)>> ELSE <<>>)
    \o (IF Scale(r) > 1 THEN <<Upscaling(Scale(r), r.model, r.face, HandedOn(r))>> ELSE <<>>)

Stages(r) ==
    CASE r.op = "image-pipeline" -> Pipeline(r)
      [] r.op = "image-enhance" -> <<Upscaling(1, "clean", r.face, r.format)>>
      [] r.op = "remove-background" -> <<Removal(r.format)>>
      [] OTHER -> <<Upscaling(Scale(r), r.model, r.face, r.format)>>

\* The temporary directory of a pipeline's file; a handler's own output.
Folder(n) == <<"folder", n>>
Output(n) == <<"output", n>>
Folders == {Folder(n) : n \in DOMAIN req.files}

\* A file of the pipeline is saved as the stages left it, on the color asked for.
Saved(picture) ==
    IF req.op = "image-pipeline" /\ picture.backdrop = "transparent"
    THEN [picture EXCEPT !.backdrop =
            IF req.color = "transparent" /\ req.format = "jpeg" THEN "white" ELSE req.color]
    ELSE picture

\* The API has looked at all images before a worker starts on the first.
StartJob ==
    /\ step = "files"
    /\ IF \A n \in DOMAIN req.files : ValidImage(req, req.files[n])
       THEN /\ step' = "stages"
            /\ todo' = Stages(req)
            /\ sent' = <<<<>>>>
            /\ output' = IF req.op = "image-pipeline" THEN {Folder(1)} ELSE {}
            /\ UNCHANGED status
       ELSE /\ step' = "over" /\ status' = "refused"
            /\ UNCHANGED <<todo, sent, output>>
    /\ UNCHANGED <<req, cpuUrl, image, made>>

Send ==
    /\ step = "stages" /\ todo # <<>>
    /\ sent' = [sent EXCEPT ![Len(sent)] = Append(@, Head(todo))]
    /\ step' = "waiting"
    /\ UNCHANGED <<req, cpuUrl, status, todo, image, made, output>>

FinishFile ==
    LET n == Len(sent)
    IN  /\ step = "stages" /\ todo = <<>>
        /\ made' = Append(made, Saved(image))
        /\ image' = [factor |-> 1, backdrop |-> "scene"]
        /\ IF n = Len(req.files)
           THEN /\ step' = "package"
                /\ output' = (output \ {Folder(n)}) \cup {Output(n)}
                /\ UNCHANGED <<todo, sent>>
           ELSE /\ todo' = Stages(req)
                /\ sent' = Append(sent, <<>>)
                /\ output' = (output \ {Folder(n)}) \cup {Output(n)}
                           \cup (IF req.op = "image-pipeline" THEN {Folder(n + 1)} ELSE {})
                /\ UNCHANGED step
        /\ UNCHANGED <<req, cpuUrl, status>>

-----------------------------------------------------------------------------
(* The services                                                                *)

Service(stage) ==
    IF stage.kind = "remove" THEN "background"
    ELSE IF cpuUrl /\ stage.scale = 1 /\ stage.face = 0 THEN "enhance"
    ELSE "upscaler"

Pixels == req.files[Len(sent)] * image.factor * image.factor

\* resolve_model
Resolved(stage) ==
    /\ stage.model \in {"standard", "photo", "detail", "clean"}
    /\ stage.model = "photo" => stage.scale = 2
    /\ IF stage.model = "clean" THEN stage.scale = 1 ELSE stage.scale \in {2, 4}

Accepted(stage) ==
    /\ Pixels <= MaxPixels
    /\ Service(stage) = "upscaler" =>
         /\ Resolved(stage)
         /\ Pixels * stage.scale * stage.scale <= MaxOutput
         /\ stage.face # 0 => Pixels * stage.scale * stage.scale <= FacePixels

\* An image of the size asked for, one of another size, or an error of any kind.
Answers == {"image", "other", "error"}

\* validated_upscale_png; remove_background takes any image.  (Wrong: so does
\* upscale.)
UsableAnySize(stage, answer) == answer # "error"
Usable(stage, answer) == answer = "image"

\* The temporary directory goes with the block that made it.
End(result) ==
    /\ step' = "over"
    /\ status' = result
    /\ output' = output \ Folders

Through(picture, stage, answer) ==
    [factor |-> IF answer = "other" THEN 1 ELSE picture.factor * stage.scale,
     backdrop |-> LET before == IF stage.kind = "remove" THEN "transparent" ELSE picture.backdrop
                 IN  IF stage.format = "jpeg" /\ before = "transparent" THEN "white" ELSE before]

Answer ==
    LET stage == Head(todo)
    IN  /\ step = "waiting"
        /\ \E answer \in Answers :
             /\ answer # "error" => Accepted(stage)
             /\ answer = "other" => stage.kind = "upscale" /\ stage.scale > 1
             /\ IF Usable(stage, answer)
                THEN /\ image' = Through(image, stage, answer)
                     /\ todo' = Tail(todo)
                     /\ step' = "stages"
                     /\ UNCHANGED <<status, output>>
                ELSE End("failed") /\ UNCHANGED <<image, todo>>
        /\ UNCHANGED <<req, cpuUrl, sent, made>>

\* The job's timeout or the worker's shutdown, while a request is waited for.
Cancel ==
    /\ step = "waiting"
    /\ End("cancelled")
    /\ UNCHANGED <<req, cpuUrl, todo, sent, image, made>>

-----------------------------------------------------------------------------
(* The result                                                                  *)

Archive == <<"archive", 0>>

\* package_outputs.  (Wrong: what is in the archive stays beside it.)
PackedKept(files) == IF Len(req.files) = 1 THEN files ELSE files \cup {Archive}
Packed(files) ==
    IF Len(req.files) = 1 THEN files
    ELSE (files \ {Output(n) : n \in DOMAIN req.files}) \cup {Archive}
Result == IF Len(req.files) = 1 THEN Output(1) ELSE Archive

Package ==
    /\ step = "package"
    /\ output' = Packed(output)
    /\ step' = "limit"
    /\ UNCHANGED <<req, cpuUrl, status, todo, sent, image, made>>

\* ensure_result_limit
CheckResult ==
    /\ step = "limit"
    /\ step' = "over"
    /\ \/ status' = "succeeded" /\ UNCHANGED output
       \/ status' = "failed" /\ output' = output \ {Result}
    /\ UNCHANGED <<req, cpuUrl, todo, sent, image, made>>

ImageNext ==
    CheckOptions \/ StartJob \/ Send \/ FinishFile \/ Answer \/ Cancel \/ Package \/ CheckResult

-----------------------------------------------------------------------------
(* Properties                                                                  *)

\* SELF_HOSTING.md: the API, the workers and the upscaler use the same limits.
\* What the API accepts, the services do: no stage of a job, on whatever the
\* stages before it made, is one they refuse for its options or its size.
ServicesAcceptRequests == step = "waiting" => Accepted(Head(todo))

\* Faces are restored once, in the last stage, on the final pixels (the test
\* test_pipeline_restores_faces_once_at_final_ai_stage), whatever is combined.
FaceOnceAtTheEnd ==
    status = "succeeded" /\ req.face # 0 /\ req.op # "remove-background" =>
        \A n \in DOMAIN sent :
            /\ {i \in DOMAIN sent[n] : sent[n][i].face # 0} = {Len(sent[n])}
            /\ sent[n] # <<>>

\* Through all stages an image grows by the factor asked for and no other.
AskedSize ==
    status = "succeeded" =>
        \A n \in DOMAIN made :
            made[n].factor = IF req.op \in {"image-enhance", "remove-background"} THEN 1 ELSE Scale(req)

\* A removed background is transparent until the end, where the color asked for
\* or the white of a JPEG replaces it: no stage in between fills it.
AskedBackdrop ==
    status = "succeeded" /\ (req.op = "remove-background" \/ (req.op = "image-pipeline" /\ req.remove)) =>
        \A n \in DOMAIN made :
            made[n].backdrop =
                IF req.op = "image-pipeline" /\ req.color # "transparent" THEN req.color
                ELSE IF req.format = "jpeg" THEN "white" ELSE "transparent"

\* However a job ends, its temporary directories are gone, and after success the
\* result is all there is.
OnlyTheResultIsLeft ==
    step = "over" =>
        /\ output \cap Folders = {}
        /\ status = "succeeded" => output = {Result}

\* What a job makes is what was asked for, whatever is combined and whatever fails.
ResultAsAsked == FaceOnceAtTheEnd /\ AskedSize /\ AskedBackdrop /\ OnlyTheResultIsLeft
=============================================================================
