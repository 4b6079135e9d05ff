------------------------------ MODULE FileProofs ------------------------------
(* What becomes of the files of a request, for every request and every limit.  *)
EXTENDS ImageJob, UploadChecks, Sums, SequenceTheorems

-----------------------------------------------------------------------------
(* The stages an image job goes through.                                       *)

ImageSpec == ImageInit /\ [][ImageNext]_imageVars

Removes(r) == r.op = "remove-background" \/ (r.op = "image-pipeline" /\ r.remove)
Factor(r) == IF r.op \in {"image-enhance", "remove-background"} THEN 1 ELSE Scale(r)

StageOf(r) ==
    [kind : {"upscale", "remove"}, scale : {1, 2, 4},
     model : {"standard", "photo", "detail", "clean", "none"}, face : Nat, format : {"png", r.format}]

\* Whatever is combined: only the last stage scales and restores faces, only
\* the first removes a background, and between the stages of a pipeline an
\* image is a PNG.
Planned(r, stages) ==
    LET n == Len(stages)
    IN  /\ stages \in Seq(StageOf(r))
        /\ \A i \in 1..n : i # n => stages[i].scale = 1 /\ stages[i].face = 0
        /\ n # 0 => stages[n].scale = Factor(r)
        /\ n = 0 => Factor(r) = 1
        /\ r.op # "remove-background" /\ r.face # 0 => n # 0 /\ stages[n].face = r.face
        /\ r.op = "remove-background" => n # 0 /\ stages[n].face = 0
        /\ n # 0 => stages[n].face \in {0, r.face}
        /\ \A i \in 1..n : stages[i].kind = "remove" <=> i = 1 /\ Removes(r)
        /\ Removes(r) => n # 0
        /\ r.op = "image-pipeline" => \A i \in 1..n : stages[i].format = "png"
        /\ r.op # "image-pipeline" => n = 1 /\ stages[1].format = r.format
        /\ \A i \in 1..n : stages[i].kind = "upscale" => Resolved(stages[i])

LEMMA UpscalingIsAStage ==
    ASSUME NEW r \in ImageRequests, NEW scale \in {1, 2, 4},
           NEW model \in {"standard", "photo", "detail", "clean"}, NEW face \in Nat,
           NEW format \in {"png", r.format},
           model = "photo" => scale = 2,
           IF model = "clean" THEN scale = 1 ELSE scale # 1
    PROVE  LET stage == Upscaling(scale, model, face, format)
           IN  /\ stage \in StageOf(r) /\ Resolved(stage)
               /\ stage.kind = "upscale" /\ stage.scale = scale /\ stage.face = face /\ stage.format = format
  BY DEF Upscaling, StageOf, Resolved

LEMMA RemovalIsAStage ==
    ASSUME NEW r \in ImageRequests, NEW format \in {"png", r.format}
    PROVE  LET stage == Removal(format)
           IN  /\ stage \in StageOf(r)
               /\ stage.kind = "remove" /\ stage.scale = 1 /\ stage.face = 0 /\ stage.format = format
  BY DEF Removal, StageOf

LEMMA OneStageIsPlanned ==
    ASSUME NEW r \in ImageRequests, ValidOptions(r), r.op # "image-pipeline"
    PROVE  Planned(r, Stages(r))
  <1> USE ImageAssumption
  <1>1. r.face \in Nat /\ Scale(r) \in {1, 2, 4} /\ r.model \in {"standard", "photo", "detail"}
    BY DEF ValidOptions
  <1>2. CASE r.op = "image-enhance"
    <2> DEFINE stage == Upscaling(1, "clean", r.face, r.format)
    <2>1. Stages(r) = <<stage>>
      BY <1>2 DEF Stages
    <2>2. /\ stage \in StageOf(r) /\ Resolved(stage) /\ stage.kind = "upscale"
          /\ stage.scale = 1 /\ stage.face = r.face /\ stage.format = r.format
      BY <1>1, UpscalingIsAStage
    <2> HIDE DEF stage
    <2> QED BY <1>1, <1>2, <2>1, <2>2 DEF Planned, Factor, Removes
  <1>3. CASE r.op = "remove-background"
    <2> DEFINE stage == Removal(r.format)
    <2>1. Stages(r) = <<stage>>
      BY <1>3 DEF Stages
    <2>2. stage \in StageOf(r) /\ stage.kind = "remove" /\ stage.scale = 1 /\ stage.face = 0 /\ stage.format = r.format
      BY RemovalIsAStage
    <2> HIDE DEF stage
    <2> QED BY <1>1, <1>3, <2>1, <2>2 DEF Planned, Factor, Removes
  <1>4. CASE r.op \in {"upscale", "upscale-preview"}
    <2> DEFINE stage == Upscaling(Scale(r), r.model, r.face, r.format)
    <2>1. Stages(r) = <<stage>>
      BY <1>4 DEF Stages
    <2>2. Scale(r) # 1 /\ (r.model = "photo" => Scale(r) = 2)
      BY <1>1, <1>4 DEF ValidOptions
    <2>3. /\ stage \in StageOf(r) /\ Resolved(stage) /\ stage.kind = "upscale"
          /\ stage.scale = Scale(r) /\ stage.face = r.face /\ stage.format = r.format
      BY <1>1, <2>2, UpscalingIsAStage
    <2> HIDE DEF stage
    <2> QED BY <1>1, <1>4, <2>1, <2>3 DEF Planned, Factor, Removes
  <1> QED BY <1>2, <1>3, <1>4

LEMMA Joined ==
    ASSUME NEW x, NEW y, NEW z
    PROVE  /\ <<x>> \o <<y>> = <<x, y>>
           /\ <<x>> \o <<y>> \o <<>> = <<x, y>>
           /\ <<>> \o <<x>> \o <<y>> = <<x, y>>
           /\ <<x>> \o <<y>> \o <<z>> = <<x, y, z>>
  <1> DEFINE E == {x, y, z}
             s == <<x>> \o <<y>>
             t == s \o <<z>>
  <1>1. <<x>> \in Seq(E) /\ <<y>> \in Seq(E) /\ <<z>> \in Seq(E) /\ <<x, y>> \in Seq(E) /\ <<x, y, z>> \in Seq(E)
    OBVIOUS
  <1>2. s \in Seq(E) /\ Len(s) = 2 /\ s[1] = x /\ s[2] = y
    BY <1>1, ConcatProperties
  <1>3. s = <<x, y>>
    <2> HIDE DEF s, E
    <2> QED BY <1>1, <1>2, SeqEqual
  <1>4. t \in Seq(E) /\ Len(t) = 3 /\ t[1] = x /\ t[2] = y /\ t[3] = z
    <2> HIDE DEF s
    <2> QED BY <1>1, <1>2, ConcatProperties, SMTT(30)
  <1>5. t = <<x, y, z>>
    <2> HIDE DEF t, E
    <2> QED BY <1>1, <1>4, SeqEqual
  <1>6. s \o <<>> = s
    <2> HIDE DEF s, E
    <2> QED BY <1>2, ConcatEmptySeq
  <1>7. <<>> \o <<x>> = <<x>>
    <2> HIDE DEF E
    <2> QED BY <1>1, ConcatEmptySeq
  <1> QED BY <1>3, <1>5, <1>6, <1>7

LEMMA PipelineIsPlanned ==
    ASSUME NEW r \in ImageRequests, ValidOptions(r), r.op = "image-pipeline"
    PROVE  Planned(r, Stages(r))
  <1> USE ImageAssumption
  <1>1. r.face \in Nat /\ Scale(r) \in {1, 2, 4} /\ r.model \in {"standard", "photo", "detail"}
    BY DEF ValidOptions
  <1> DEFINE removal == Removal(HandedOn(r))
             enhancement == Enhancement(r)
             upscaling == Upscaling(Scale(r), r.model, r.face, HandedOn(r))
             enhances == r.enhance \/ (Scale(r) = 1 /\ r.face # 0)
             a == IF r.remove THEN <<removal>> ELSE <<>>
             b == IF enhances THEN <<enhancement>> ELSE <<>>
             c == IF Scale(r) > 1 THEN <<upscaling>> ELSE <<>>
  <1>2. Stages(r) = a \o b \o c
    BY DEF Stages, Pipeline
  <1>3. /\ removal \in StageOf(r) /\ removal.kind = "remove" /\ removal.scale = 1
        /\ removal.face = 0 /\ removal.format = "png"
    BY RemovalIsAStage DEF HandedOn
  <1>4. /\ enhancement \in StageOf(r) /\ Resolved(enhancement) /\ enhancement.kind = "upscale"
        /\ enhancement.scale = 1 /\ enhancement.format = "png"
        /\ enhancement.face = IF Scale(r) = 1 THEN r.face ELSE 0
    BY <1>1, UpscalingIsAStage DEF Enhancement
  <1>5. Scale(r) > 1 =>
          /\ upscaling \in StageOf(r) /\ Resolved(upscaling) /\ upscaling.kind = "upscale"
          /\ upscaling.scale = Scale(r) /\ upscaling.face = r.face /\ upscaling.format = "png"
    <2>1. Scale(r) > 1 => Scale(r) # 1 /\ (r.model = "photo" => Scale(r) = 2)
      BY <1>1 DEF ValidOptions
    <2> QED BY <1>1, <2>1, UpscalingIsAStage DEF HandedOn
  <1> HIDE DEF removal, enhancement, upscaling
  <1> DEFINE S == Stages(r)
  <1>6. r.remove \in BOOLEAN /\ enhances \in BOOLEAN
    OBVIOUS
  <1>7. Removes(r) <=> r.remove
    BY DEF Removes
  <1>8. Factor(r) = Scale(r)
    BY DEF Factor
  <1>9. CASE Scale(r) > 1
    <2>1. CASE r.remove /\ enhances
      <3>1. S = <<removal, enhancement, upscaling>>
        BY <1>2, <1>9, <2>1, Joined
      <3> HIDE DEF enhances, S
      <3> QED BY <1>1, <1>3, <1>4, <1>5, <1>7, <1>8, <1>9, <2>1, <3>1 DEF Planned, S
    <2>2. CASE r.remove /\ ~enhances
      <3>1. S = <<removal, upscaling>>
        BY <1>2, <1>9, <2>2, Joined
      <3> HIDE DEF enhances, S
      <3> QED BY <1>1, <1>3, <1>4, <1>5, <1>7, <1>8, <1>9, <2>2, <3>1 DEF Planned, S
    <2>3. CASE ~r.remove /\ enhances
      <3>1. S = <<enhancement, upscaling>>
        BY <1>2, <1>9, <2>3, Joined
      <3> HIDE DEF enhances, S
      <3> QED BY <1>1, <1>3, <1>4, <1>5, <1>7, <1>8, <1>9, <2>3, <3>1 DEF Planned, S
    <2>4. CASE ~r.remove /\ ~enhances
      <3>1. S = <<upscaling>>
        BY <1>2, <1>9, <2>4
      <3> HIDE DEF enhances, S
      <3> QED BY <1>1, <1>3, <1>4, <1>5, <1>7, <1>8, <1>9, <2>4, <3>1 DEF Planned, S
    <2> HIDE DEF enhances, S
    <2> QED BY <1>6, <2>1, <2>2, <2>3, <2>4 DEF S
  <1>10. CASE Scale(r) = 1
    <2>1. CASE r.remove /\ enhances
      <3>1. S = <<removal, enhancement>>
        <4>1. a = <<removal>> /\ b = <<enhancement>> /\ c = <<>>
          BY <1>10, <2>1
        <4> HIDE DEF a, b, c
        <4> QED BY <1>2, <4>1, Joined
      <3> HIDE DEF enhances, S
      <3> QED BY <1>1, <1>3, <1>4, <1>7, <1>8, <1>10, <2>1, <3>1 DEF Planned, S
    <2>2. CASE r.remove /\ ~enhances
      <3>1. S = <<removal>>
        BY <1>2, <1>10, <2>2
      <3> HIDE DEF S
      <3> QED BY <1>1, <1>3, <1>4, <1>7, <1>8, <1>10, <2>2, <3>1 DEF Planned, S
    <2>3. CASE ~r.remove /\ enhances
      <3>1. S = <<enhancement>>
        BY <1>2, <1>10, <2>3
      <3> HIDE DEF enhances, S
      <3> QED BY <1>1, <1>3, <1>4, <1>7, <1>8, <1>10, <2>3, <3>1 DEF Planned, S
    <2>4. CASE ~r.remove /\ ~enhances
      <3>1. S = <<>>
        BY <1>2, <1>10, <2>4
      <3> HIDE DEF S
      <3> QED BY <1>1, <1>3, <1>4, <1>7, <1>8, <1>10, <2>4, <3>1 DEF Planned, S
    <2> HIDE DEF enhances, S
    <2> QED BY <1>6, <2>1, <2>2, <2>3, <2>4 DEF S
  <1> QED BY <1>1, <1>9, <1>10

\* Every job the API accepts is planned well.
LEMMA StagesArePlanned ==
    ASSUME NEW r \in ImageRequests, ValidOptions(r)
    PROVE  Planned(r, Stages(r))
  BY OneStageIsPlanned, PipelineIsPlanned

-----------------------------------------------------------------------------
(* What holds of an image job between its steps.                               *)

Pictures == [factor : {1, 2, 4}, backdrop : {"scene", "transparent", "white", req.color}]

RightBackdrop ==
    IF req.op = "image-pipeline" /\ req.color # "transparent" THEN req.color
    ELSE IF req.format = "jpeg" THEN "white" ELSE "transparent"

Outputs(count) == {Output(n) : n \in 1..count}

\* The first files, as many as `count', are made as they should be.
Finished(count) ==
    /\ made \in Seq(Pictures) /\ Len(made) = count
    /\ \A k \in 1..count : /\ sent[k] = Stages(req)
                           /\ made[k].factor = Factor(req)
                           /\ Removes(req) => made[k].backdrop = RightBackdrop

\* The current file has gone through the first stages, as many as `count'.
Gone(count) ==
    LET plan == Stages(req)
    IN  /\ Len(todo) = Len(plan) - count
        /\ \A i \in 1..Len(todo) : todo[i] = plan[count + i]
        /\ image.factor = IF count = Len(plan) THEN Factor(req) ELSE 1
        /\ image.backdrop = IF count # 0 /\ Removes(req) THEN "transparent" ELSE "scene"

Asks(count) ==
    LET last == sent[Len(sent)]
    IN  /\ last \in Seq(StageOf(req)) /\ Len(last) = count
        /\ \A i \in 1..count : last[i] = Stages(req)[i]

Working ==
    /\ sent \in Seq(Seq(StageOf(req))) /\ Len(sent) \in 1..Len(req.files)
    /\ todo \in Seq(StageOf(req))
    /\ image \in Pictures
    /\ Finished(Len(sent) - 1)
    /\ output = Outputs(Len(sent) - 1) \cup (IF req.op = "image-pipeline" THEN {Folder(Len(sent))} ELSE {})
    /\ \E count \in 0..Len(Stages(req)) :
         /\ Gone(count)
         /\ IF step = "waiting" THEN count # Len(Stages(req)) /\ Asks(count + 1) ELSE Asks(count)

AllDone ==
    /\ sent \in Seq(Seq(StageOf(req))) /\ Len(sent) = Len(req.files)
    /\ Finished(Len(sent))

Begun == {"stages", "waiting", "package", "limit"}

ImageInv ==
    /\ req \in ImageRequests
    /\ step \in {"options", "files", "over"} \cup Begun
    /\ step # "over" => status = "none"
    /\ step \in {"files"} \cup Begun => ValidOptions(req)
    /\ step \in Begun => \A n \in DOMAIN req.files : ValidImage(req, req.files[n])
    /\ step \in {"options", "files"} =>
         /\ made = <<>> /\ output = {}
         /\ image = [factor |-> 1, backdrop |-> "scene"]
    /\ step \in {"stages", "waiting"} => Working
    /\ step = "package" => AllDone /\ output = Outputs(Len(req.files))
    /\ step = "limit" => AllDone /\ output = {Result}
    /\ step = "over" =>
         /\ output \cap Folders = {}
         /\ status = "succeeded" => ValidOptions(req) /\ AllDone /\ output = {Result}

-----------------------------------------------------------------------------
(* The steps of an image job.                                                  *)

\* What the proofs of the steps need of a request.
LEMMA RequestFacts ==
    ASSUME ImageInv
    PROVE  /\ req \in ImageRequests /\ req.files \in Seq(Nat)
           /\ Len(req.files) \in Nat /\ Len(req.files) # 0
           /\ DOMAIN req.files = 1..Len(req.files)
           /\ Folders = {Folder(n) : n \in 1..Len(req.files)}
  <1>1. req \in ImageRequests /\ req.files \in Seq(Nat) /\ req.files # <<>>
    BY ImageAssumption DEF ImageInv
  <1>2. Len(req.files) \in Nat /\ Len(req.files) # 0 /\ DOMAIN req.files = 1..Len(req.files)
    BY <1>1, EmptySeq, LenProperties
  <1> QED BY <1>1, <1>2 DEF Folders

LEMMA PlanFacts ==
    ASSUME ImageInv, ValidOptions(req)
    PROVE  /\ Planned(req, Stages(req)) /\ Stages(req) \in Seq(StageOf(req)) /\ Len(Stages(req)) \in Nat
           /\ Factor(req) \in {1, 2, 4} /\ Scale(req) \in {1, 2, 4}
  <1>1. Planned(req, Stages(req))
    BY StagesArePlanned DEF ImageInv
  <1>2. Stages(req) \in Seq(StageOf(req))
    BY <1>1 DEF Planned
  <1>3. Scale(req) \in {1, 2, 4}
    BY DEF ValidOptions
  <1> QED BY <1>1, <1>2, <1>3, LenProperties DEF Factor

LEMMA InitImage == ImageInit => ImageInv
  BY DEF ImageInit, ImageInv, Begun

LEMMA CheckOptionsStep ==
    ASSUME ImageInv, CheckOptions
    PROVE  ImageInv'
  BY DEF ImageInv, CheckOptions, Begun

LEMMA StartJobStep ==
    ASSUME ImageInv, StartJob
    PROVE  ImageInv'
  <1>1. req' = req /\ image' = image /\ made' = made /\ step = "files"
    BY DEF StartJob
  <1>2. ValidOptions(req) /\ made = <<>> /\ output = {} /\ image = [factor |-> 1, backdrop |-> "scene"]
    BY <1>1 DEF ImageInv, Begun
  <1>3. status = "none"
    BY <1>1 DEF ImageInv
  <1>4. CASE step' = "over"
    BY <1>1, <1>2, <1>4 DEF StartJob, ImageInv, Begun
  <1>5. CASE step' # "over"
    <2>1. /\ \A n \in DOMAIN req.files : ValidImage(req, req.files[n])
          /\ step' = "stages" /\ todo' = Stages(req) /\ sent' = <<<<>>>>
          /\ output' = (IF req.op = "image-pipeline" THEN {Folder(1)} ELSE {})
          /\ status' = status
      BY <1>5 DEF StartJob
    <2> DEFINE plan == Stages(req)
    <2>2. /\ Planned(req, plan) /\ plan \in Seq(StageOf(req)) /\ Len(plan) \in Nat
          /\ Factor(req) \in {1, 2, 4}
      BY <1>2, PlanFacts
    <2>3. Len(req.files) \in Nat /\ Len(req.files) # 0
      BY RequestFacts
    <2>4. sent' \in Seq(Seq(StageOf(req))) /\ Len(sent') = 1 /\ sent'[1] = <<>>
      BY <2>1
    <2>5. Gone(0)'
      <3>1. Len(plan) = 0 => Factor(req) = 1
        BY <2>2 DEF Planned
      <3> HIDE DEF plan
      <3> QED BY <1>1, <1>2, <2>1, <2>2, <3>1 DEF Gone, plan
    <2>6. Asks(0)'
      BY <1>1, <2>4 DEF Asks
    <2>7. Finished(0)'
      BY <1>1, <1>2 DEF Finished
    <2>8. Outputs(0) = {}
      BY DEF Outputs
    <2>9. image' \in Pictures'
      BY <1>1, <1>2 DEF Pictures
    <2>10. Working'
      <3>1. step' # "waiting" /\ 0 \in 0..Len(Stages(req))
        BY <2>1, <2>2
      <3>2. Len(sent') - 1 = 0 /\ Outputs(0)' = Outputs(0)
        BY <2>4 DEF Outputs
      <3> QED BY <1>1, <2>1, <2>2, <2>3, <2>4, <2>5, <2>6, <2>7, <2>8, <2>9, <3>1, <3>2 DEF Working
    <2> HIDE DEF plan
    <2> QED BY <1>1, <1>2, <1>3, <2>1, <2>10 DEF ImageInv, Begun
  <1> QED BY <1>4, <1>5

\* What the files made so far are like depends only on them and on what was sent for them.
LEMMA FinishedStays ==
    ASSUME NEW n \in Nat, Finished(n), UNCHANGED <<req, made>>, \A k \in 1..n : sent'[k] = sent[k]
    PROVE  Finished(n)'
  <1>1. Pictures' = Pictures /\ RightBackdrop' = RightBackdrop
    BY DEF Pictures, RightBackdrop
  <1>2. Stages(req)' = Stages(req) /\ Factor(req)' = Factor(req) /\ Removes(req)' = Removes(req)
    OBVIOUS
  <1>3. made' \in Seq(Pictures') /\ Len(made') = n
    BY <1>1 DEF Finished
  <1>4. ASSUME NEW k \in 1..n
        PROVE  /\ sent'[k] = Stages(req)' /\ made'[k].factor = Factor(req)'
               /\ Removes(req)' => made'[k].backdrop = RightBackdrop'
    BY <1>1, <1>2 DEF Finished
  <1> QED BY <1>3, <1>4 DEF Finished

LEMMA SendStep ==
    ASSUME ImageInv, Send
    PROVE  ImageInv'
  <1>1. /\ step = "stages" /\ todo # <<>> /\ step' = "waiting"
        /\ sent' = [sent EXCEPT ![Len(sent)] = Append(@, Head(todo))]
        /\ UNCHANGED <<req, status, todo, image, made, output>>
    BY DEF Send
  <1>2. Working /\ ValidOptions(req) /\ status = "none"
    BY <1>1 DEF ImageInv, Begun
  <1> DEFINE m == Len(sent)
             plan == Stages(req)
  <1>3. plan \in Seq(StageOf(req)) /\ Len(plan) \in Nat
    BY <1>2, PlanFacts
  <1>4. PICK count \in 0..Len(plan) : Gone(count) /\ Asks(count)
    BY <1>1, <1>2 DEF Working
  <1>5. m \in 1..Len(req.files) /\ sent \in Seq(Seq(StageOf(req))) /\ todo \in Seq(StageOf(req)) /\ m \in Nat
    BY <1>2, RequestFacts DEF Working
  <1>6. Len(todo) \in Nat /\ Len(todo) # 0 /\ Head(todo) = todo[1]
    BY <1>1, <1>5, EmptySeq
  <1>7. count # Len(plan) /\ Head(todo) = plan[count + 1]
    BY <1>3, <1>4, <1>6 DEF Gone
  <1> DEFINE last == sent[m]
             next == Append(last, Head(todo))
  <1>8. last \in Seq(StageOf(req)) /\ Len(last) = count /\ \A i \in 1..count : last[i] = plan[i]
    BY <1>4 DEF Asks
  <1>9. /\ next \in Seq(StageOf(req)) /\ Len(next) = count + 1
        /\ \A i \in 1..count + 1 : next[i] = plan[i]
    <2>1. Head(todo) \in StageOf(req)
      BY <1>1, <1>5, HeadTailProperties
    <2>2. next \in Seq(StageOf(req)) /\ Len(next) = count + 1 /\ next[count + 1] = Head(todo)
          /\ \A i \in 1..count : next[i] = last[i]
      BY <1>8, <2>1, AppendProperties
    <2> QED BY <1>7, <1>8, <2>2
  <1>10. /\ sent' \in Seq(Seq(StageOf(req))) /\ Len(sent') = m
         /\ sent'[m] = next /\ \A k \in 1..m : k # m => sent'[k] = sent[k]
    <2>1. sent' = [sent EXCEPT ![m] = next]
      BY <1>1
    <2> HIDE DEF next
    <2>2. m \in 1..m
      BY <1>5
    <2> QED BY <1>5, <1>9, <2>1, <2>2, ExceptSeq
  <1> HIDE DEF next, last, plan
  <1>11. Asks(count + 1)'
    <2>1. Stages(req)' = plan /\ StageOf(req)' = StageOf(req)
      BY <1>1 DEF plan
    <2>2. sent'[Len(sent')] = next
      BY <1>10
    <2> QED BY <1>9, <2>1, <2>2 DEF Asks
  <1>12. Finished(m - 1)'
    <2>1. m - 1 \in Nat /\ Finished(m - 1) /\ \A k \in 1..(m - 1) : sent'[k] = sent[k]
      BY <1>2, <1>5, <1>10 DEF Working
    <2>2. Finished(m - 1)'
      BY <1>1, <2>1, FinishedStays
    <2> QED BY <2>2
  <1>13. Gone(count)'
    BY <1>1, <1>4 DEF Gone
  <1>14. Working'
    BY <1>1, <1>2, <1>4, <1>7, <1>10, <1>11, <1>12, <1>13 DEF Working, Pictures, Outputs, plan
  <1> QED BY <1>1, <1>14 DEF ImageInv, Begun

\* A file that went through all its stages is made as it should be.
LEMMA SavedRight ==
    ASSUME ImageInv, ValidOptions(req), image \in Pictures, Gone(Len(Stages(req)))
    PROVE  /\ Saved(image) \in Pictures
           /\ Saved(image).factor = Factor(req)
           /\ Removes(req) => Saved(image).backdrop = RightBackdrop
  <1>1. /\ image.factor = Factor(req)
        /\ Removes(req) => image.backdrop = "transparent"
    <2>1. Removes(req) => Len(Stages(req)) # 0
      BY PlanFacts DEF Planned
    <2> QED BY <2>1 DEF Gone
  <1>2. Saved(image) \in Pictures /\ Saved(image).factor = image.factor
    BY DEF Saved, Pictures
  <1>3. ASSUME Removes(req) PROVE Saved(image).backdrop = RightBackdrop
    <2>1. CASE req.op = "image-pipeline"
      BY <1>1, <1>3, <2>1 DEF Saved, RightBackdrop, Pictures
    <2>2. CASE req.op = "remove-background"
      <3>1. req.format # "jpeg"
        BY <2>2 DEF ValidOptions
      <3>2. Saved(image) = image
        BY <2>2 DEF Saved
      <3> QED BY <1>1, <1>3, <2>2, <3>1, <3>2 DEF RightBackdrop
    <2> QED BY <1>3, <2>1, <2>2 DEF Removes
  <1> QED BY <1>1, <1>2, <1>3

LEMMA FoldersAreNotOutputs ==
    /\ \A n, k : Folder(n) # Output(k) /\ Folder(n) # Archive /\ Output(n) # Archive
    /\ \A n, k : Folder(n) = Folder(k) => n = k
    /\ \A n, k : Output(n) = Output(k) => n = k
  BY DEF Folder, Output, Archive

LEMMA OneMoreOutput ==
    ASSUME NEW m \in Nat, m # 0
    PROVE  Outputs(m) = Outputs(m - 1) \cup {Output(m)}
  BY DEF Outputs

\* All of its stages are sent for a file that went through all of them.
LEMMA SentRight ==
    ASSUME ImageInv, Working, ValidOptions(req), step = "stages", todo = <<>>
    PROVE  /\ Gone(Len(Stages(req))) /\ sent[Len(sent)] = Stages(req)
  <1> DEFINE plan == Stages(req)
             last == sent[Len(sent)]
  <1>1. plan \in Seq(StageOf(req)) /\ Len(plan) \in Nat
    BY PlanFacts
  <1>2. PICK count \in 0..Len(plan) : Gone(count) /\ Asks(count)
    BY DEF Working
  <1>3. Len(todo) = 0
    OBVIOUS
  <1>4. count = Len(plan)
    BY <1>1, <1>2, <1>3 DEF Gone
  <1>5. last \in Seq(StageOf(req)) /\ Len(last) = Len(plan) /\ \A i \in 1..Len(plan) : last[i] = plan[i]
    BY <1>2, <1>4 DEF Asks
  <1>6. last = plan
    <2> HIDE DEF plan, last
    <2> QED BY <1>1, <1>5, SeqEqual
  <1> QED BY <1>2, <1>4, <1>6

LEMMA FinishFileStep ==
    ASSUME ImageInv, FinishFile
    PROVE  ImageInv'
  <1> DEFINE plan == Stages(req)
  <1>1. /\ step = "stages" /\ todo = <<>>
        /\ made' = Append(made, Saved(image))
        /\ image' = [factor |-> 1, backdrop |-> "scene"]
        /\ UNCHANGED <<req, status>>
    BY DEF FinishFile
  <1>2. Working /\ ValidOptions(req) /\ status = "none"
    BY <1>1 DEF ImageInv, Begun
  <1>3. /\ Planned(req, plan) /\ plan \in Seq(StageOf(req)) /\ Len(plan) \in Nat
        /\ Factor(req) \in {1, 2, 4}
    BY <1>2, PlanFacts
  <1>4. Working /\ Len(sent) \in 1..Len(req.files)
    BY <1>2 DEF Working
  <1> PICK m \in 1..Len(req.files) : m = Len(sent)
    BY <1>4
  <1>5. /\ m = Len(sent) /\ m \in Nat /\ m # 0 /\ Len(req.files) \in Nat
        /\ sent \in Seq(Seq(StageOf(req))) /\ image \in Pictures
        /\ Finished(m - 1)
        /\ output = Outputs(m - 1) \cup (IF req.op = "image-pipeline" THEN {Folder(m)} ELSE {})
    BY <1>2, RequestFacts DEF Working
  <1>6. Gone(Len(plan)) /\ sent[m] = plan
    BY <1>1, <1>2, SentRight
  <1>7. /\ Saved(image) \in Pictures /\ Saved(image).factor = Factor(req)
        /\ Removes(req) => Saved(image).backdrop = RightBackdrop
    BY <1>2, <1>5, <1>6, SavedRight
  <1>8. /\ made' \in Seq(Pictures) /\ Len(made') = m
        /\ made'[m] = Saved(image) /\ \A k \in 1..m - 1 : made'[k] = made[k]
    <2>1. made \in Seq(Pictures) /\ Len(made) = m - 1
      BY <1>5 DEF Finished
    <2> QED BY <1>1, <1>5, <1>7, <2>1, AppendProperties
  <1>9. (output \ {Folder(m)}) \cup {Output(m)} = Outputs(m)
    <2>1. Folder(m) \notin Outputs(m - 1)
      BY FoldersAreNotOutputs DEF Outputs
    <2>2. output \ {Folder(m)} = Outputs(m - 1)
      <3> HIDE DEF plan
      <3>1. CASE req.op = "image-pipeline"
        BY <1>5, <2>1, <3>1
      <3>2. CASE req.op # "image-pipeline"
        BY <1>5, <2>1, <3>2
      <3> QED BY <3>1, <3>2
    <2> QED BY <1>5, <2>2, OneMoreOutput
  <1>10. ASSUME \A k \in 1..m : sent'[k] = sent[k]
        PROVE  Finished(m)'
    <2>1. \A k \in 1..m : /\ sent'[k] = plan
                          /\ made'[k].factor = Factor(req)
                          /\ Removes(req) => made'[k].backdrop = RightBackdrop
      <3> SUFFICES ASSUME NEW k \in 1..m
                   PROVE  /\ sent'[k] = plan
                          /\ made'[k].factor = Factor(req)
                          /\ Removes(req) => made'[k].backdrop = RightBackdrop
        OBVIOUS
      <3>1. CASE k = m
        BY <1>5, <1>6, <1>7, <1>8, <1>10, <3>1
      <3>2. CASE k # m
        <4>1. k \in 1..m - 1
          BY <1>5, <3>2
        <4> HIDE DEF plan
        <4> QED BY <1>5, <1>8, <1>10, <4>1 DEF Finished, plan
      <3> QED BY <3>1, <3>2
    <2>2. Pictures' = Pictures /\ RightBackdrop' = RightBackdrop
      BY <1>1 DEF Pictures, RightBackdrop
    <2> QED BY <1>1, <1>8, <2>1, <2>2 DEF Finished
  <1>11. CASE m = Len(req.files)
    <2>1. step' = "package" /\ output' = (output \ {Folder(m)}) \cup {Output(m)} /\ sent' = sent
      BY <1>11 DEF FinishFile
    <2>2. AllDone'
      BY <1>1, <1>5, <1>10, <1>11, <2>1 DEF AllDone
    <2>3. output' = Outputs(Len(req.files))
      BY <1>9, <1>11, <2>1
    <2> HIDE DEF plan
    <2> QED BY <1>1, <1>2, <2>1, <2>2, <2>3 DEF ImageInv, Begun, Outputs
  <1>12. CASE m # Len(req.files)
    <2>1. /\ todo' = plan /\ sent' = Append(sent, <<>>) /\ step' = step
          /\ output' = (output \ {Folder(m)}) \cup {Output(m)}
                         \cup (IF req.op = "image-pipeline" THEN {Folder(m + 1)} ELSE {})
      BY <1>12 DEF FinishFile
    <2>2. /\ sent' \in Seq(Seq(StageOf(req))) /\ Len(sent') = m + 1
          /\ sent'[m + 1] = <<>> /\ \A k \in 1..m : sent'[k] = sent[k]
      <3>1. <<>> \in Seq(StageOf(req))
        OBVIOUS
      <3> QED BY <1>5, <2>1, <3>1, AppendProperties
    <2>3. Finished(m)'
      BY <1>10, <2>2
    <2>4. Gone(0)'
      <3>1. Len(plan) = 0 => Factor(req) = 1
        BY <1>3 DEF Planned
      <3>2. Stages(req)' = plan /\ Factor(req)' = Factor(req)
        BY <1>1
      <3> HIDE DEF plan
      <3> QED BY <1>1, <1>3, <2>1, <3>1, <3>2 DEF Gone
    <2>5. Asks(0)'
      <3>1. sent'[Len(sent')] = <<>>
        BY <2>2
      <3> QED BY <3>1 DEF Asks
    <2>6. output' = Outputs(m) \cup (IF req.op = "image-pipeline" THEN {Folder(m + 1)} ELSE {})
      BY <1>9, <2>1
    <2>7. image' \in Pictures'
      BY <1>1 DEF Pictures
    <2>8. Working'
      <3>1. m + 1 \in 1..Len(req.files) /\ (m + 1) - 1 = m /\ 0 \in 0..Len(plan)
        BY <1>3, <1>5, <1>12
      <3>2. Outputs(m)' = Outputs(m) /\ todo' \in Seq(StageOf(req))' /\ Seq(Seq(StageOf(req)))' = Seq(Seq(StageOf(req)))
        BY <1>1, <1>3, <2>1 DEF Outputs
      <3>3. step' # "waiting"
        BY <1>1, <2>1
      <3>4. Stages(req)' = plan /\ req' = req
        BY <1>1
      <3> HIDE DEF plan
      <3> QED BY <2>2, <2>3, <2>4, <2>5, <2>6, <2>7, <3>1, <3>2, <3>3, <3>4 DEF Working
    <2> HIDE DEF plan
    <2> QED BY <1>1, <1>2, <2>1, <2>8 DEF ImageInv, Begun
  <1> QED BY <1>11, <1>12

\* A job that is cut short leaves no temporary directory.
LEMMA EndsClean ==
    ASSUME ImageInv, NEW result \in {"failed", "cancelled"}, End(result), UNCHANGED req
    PROVE  ImageInv'
  BY DEF ImageInv, End, Begun, Folders

\* A stage that went through brings the image one stage further.
LEMMA GoesThrough ==
    ASSUME ImageInv, ValidOptions(req), image \in Pictures, todo # <<>>, todo \in Seq(StageOf(req)),
           NEW count \in 0..Len(Stages(req)), Gone(count), UNCHANGED req,
           image' = Through(image, Head(todo), "image"), todo' = Tail(todo)
    PROVE  Gone(count + 1)' /\ image' \in Pictures' /\ todo' \in Seq(StageOf(req))
  <1> DEFINE plan == Stages(req)
             stage == Head(todo)
             n == Len(plan)
  <1>1. /\ Planned(req, plan) /\ plan \in Seq(StageOf(req)) /\ n \in Nat
        /\ Factor(req) \in {1, 2, 4}
    BY PlanFacts
  <1>2. /\ Tail(todo) \in Seq(StageOf(req)) /\ Len(Tail(todo)) = Len(todo) - 1
        /\ \A i \in 1..Len(todo) - 1 : Tail(todo)[i] = todo[i + 1]
        /\ stage = todo[1] /\ Len(todo) \in Nat /\ Len(todo) # 0
    BY HeadTailProperties, EmptySeq
  <1>3. /\ Len(todo) = n - count /\ \A i \in 1..Len(todo) : todo[i] = plan[count + i]
        /\ image.factor = IF count = n THEN Factor(req) ELSE 1
        /\ image.backdrop = IF count # 0 /\ Removes(req) THEN "transparent" ELSE "scene"
    BY DEF Gone
  <1>4. count # n /\ count + 1 \in 1..n /\ stage = plan[count + 1]
    BY <1>1, <1>2, <1>3
  <1>5. stage.scale = IF count + 1 = n THEN Factor(req) ELSE 1
    <2> HIDE DEF plan, stage
    <2> QED BY <1>1, <1>4 DEF Planned, n
  <1>6. stage.kind = "remove" <=> count = 0 /\ Removes(req)
    <2> HIDE DEF plan, stage
    <2> QED BY <1>1, <1>4 DEF Planned, n
  <1>7. Removes(req) => stage.format # "jpeg"
    <2>1. CASE req.op = "image-pipeline"
      <3> HIDE DEF plan, stage
      <3> QED BY <1>1, <1>4, <2>1 DEF Planned, n
    <2>2. CASE req.op = "remove-background"
      <3>1. req.format # "jpeg"
        BY <2>2 DEF ValidOptions
      <3>2. count + 1 = 1 /\ plan[1].format = req.format
        <4>1. n = 1 /\ plan[1].format = req.format
          <5> HIDE DEF plan
          <5> QED BY <1>1, <2>2 DEF Planned, n
        <4> HIDE DEF plan, n
        <4> QED BY <1>4, <4>1
      <3> HIDE DEF plan, stage
      <3> QED BY <1>4, <3>1, <3>2
    <2> QED BY <2>1, <2>2 DEF Removes
  <1>8. /\ image'.factor = 1 * stage.scale
        /\ image'.backdrop = IF Removes(req) THEN "transparent" ELSE "scene"
        /\ image' = [factor |-> image'.factor, backdrop |-> image'.backdrop]
    <2> HIDE DEF plan, stage
    <2> QED BY <1>3, <1>4, <1>6, <1>7 DEF Through, Pictures, stage
  <1>9. image'.factor = IF count + 1 = n THEN Factor(req) ELSE 1
    <2> HIDE DEF plan, stage, n
    <2> QED BY <1>1, <1>5, <1>8
  <1>10. image' \in Pictures'
    <2> HIDE DEF plan, stage, n
    <2> QED BY <1>1, <1>8, <1>9 DEF Pictures
  <1>11. /\ Len(todo') = n - (count + 1)
         /\ \A i \in 1..Len(todo') : todo'[i] = plan[(count + 1) + i]
    <2>1. \A i \in 1..Len(todo) - 1 : todo[i + 1] = plan[count + (i + 1)] /\ count + (i + 1) = (count + 1) + i
      BY <1>2, <1>3
    <2> HIDE DEF plan, stage, n
    <2> QED BY <1>1, <1>2, <1>3, <2>1
  <1>12. Gone(count + 1)'
    <2>1. Stages(req)' = plan /\ Factor(req)' = Factor(req) /\ Removes(req)' = Removes(req) /\ count + 1 # 0
      BY <1>1 DEF Removes
    <2> HIDE DEF plan, stage
    <2> QED BY <1>8, <1>9, <1>11, <2>1 DEF Gone, n
  <1> QED BY <1>2, <1>10, <1>12

LEMMA AnswerStep ==
    ASSUME ImageInv, Answer
    PROVE  ImageInv'
  <1>1. /\ step = "waiting" /\ UNCHANGED <<req, sent, made>>
        /\ \/ /\ image' = Through(image, Head(todo), "image") /\ todo' = Tail(todo)
              /\ step' = "stages" /\ UNCHANGED <<status, output>>
           \/ End("failed")
    BY DEF Answer, Usable
  <1>2. CASE End("failed")
    BY <1>1, <1>2, EndsClean
  <1>3. CASE ~End("failed")
    <2>1. Working /\ ValidOptions(req) /\ status = "none"
      BY <1>1 DEF ImageInv, Begun
    <2>2. PICK count \in 0..Len(Stages(req)) : Gone(count) /\ count # Len(Stages(req)) /\ Asks(count + 1)
      BY <1>1, <2>1 DEF Working
    <2>3. Len(Stages(req)) \in Nat
      BY <2>1, PlanFacts
    <2>4. todo # <<>> /\ todo \in Seq(StageOf(req)) /\ image \in Pictures
      BY <2>1, <2>2, <2>3 DEF Working, Gone
    <2>5. Gone(count + 1)' /\ image' \in Pictures' /\ todo' \in Seq(StageOf(req))
      BY <1>1, <1>3, <2>1, <2>2, <2>4, GoesThrough
    <2>6. Asks(count + 1)'
      BY <1>1, <2>2 DEF Asks
    <2>7. count + 1 \in 0..Len(Stages(req))
      BY <2>2, <2>3
    <2>8. Finished(Len(sent) - 1)'
      BY <1>1, <2>1 DEF Working, Finished, Pictures, RightBackdrop
    <2>9. Working'
      BY <1>1, <1>3, <2>1, <2>5, <2>6, <2>7, <2>8 DEF Working, Outputs
    <2> QED BY <1>1, <1>3, <2>1, <2>9 DEF ImageInv, Begun
  <1> QED BY <1>2, <1>3

LEMMA CancelStep ==
    ASSUME ImageInv, Cancel
    PROVE  ImageInv'
  BY EndsClean DEF Cancel

LEMMA PackageStep ==
    ASSUME ImageInv, Package
    PROVE  ImageInv'
  <1>1. step = "package" /\ step' = "limit" /\ output' = Packed(output) /\ UNCHANGED <<req, status, sent, made>>
    BY DEF Package
  <1>2. AllDone /\ output = Outputs(Len(req.files)) /\ ValidOptions(req) /\ status = "none"
    BY <1>1 DEF ImageInv, Begun
  <1>3. output' = {Result}
    BY <1>1, <1>2, RequestFacts, SMTT(30) DEF Packed, Outputs, Result
  <1>4. AllDone'
    BY <1>1, <1>2 DEF AllDone, Finished, Pictures, RightBackdrop
  <1>5. Result' = Result
    BY <1>1 DEF Result
  <1> QED BY <1>1, <1>2, <1>3, <1>4, <1>5 DEF ImageInv, Begun

LEMMA CheckResultStep ==
    ASSUME ImageInv, CheckResult
    PROVE  ImageInv'
  <1>1. step = "limit" /\ step' = "over" /\ UNCHANGED <<req, sent, made>> /\ output' \in SUBSET output
    BY DEF CheckResult
  <1>2. AllDone /\ output = {Result} /\ ValidOptions(req)
    BY <1>1 DEF ImageInv, Begun
  <1>3. AllDone' /\ Result' = Result /\ Folders' = Folders
    BY <1>1, <1>2 DEF AllDone, Finished, Pictures, RightBackdrop, Result, Folders
  <1>4. Result \notin Folders
    BY FoldersAreNotOutputs DEF Result, Folders
  <1>5. status' = "succeeded" => output' = output
    BY DEF CheckResult
  <1> QED BY <1>1, <1>2, <1>3, <1>4, <1>5 DEF ImageInv, Begun

LEMMA StepImage ==
    ASSUME ImageInv, [ImageNext]_imageVars
    PROVE  ImageInv'
  <1>1. CASE UNCHANGED imageVars
    <2>1. UNCHANGED <<req, cpuUrl, step, status, todo, sent, image, made, output>>
      BY <1>1 DEF imageVars
    <2>2. /\ Pictures' = Pictures /\ Folders' = Folders /\ Result' = Result
          /\ \A n : Outputs(n)' = Outputs(n)
      BY <2>1 DEF Pictures, Folders, Result, Outputs
    <2>3. ASSUME Working PROVE Working'
      <3>1. PICK n \in Nat : n = Len(sent) - 1
        <4>1. Len(sent) \in 1..Len(req.files) /\ Len(req.files) \in Nat
          BY <2>3, RequestFacts DEF Working
        <4>2. Len(sent) - 1 \in Nat
          BY <4>1
        <4> QED BY <4>2
      <3>2. Finished(Len(sent) - 1)'
        <4>1. Finished(n)'
          BY <2>1, <2>3, <3>1, FinishedStays DEF Working
        <4> QED BY <2>1, <3>1, <4>1
      <3>3. PICK count \in 0..Len(Stages(req)) :
              /\ Gone(count)
              /\ IF step = "waiting" THEN count # Len(Stages(req)) /\ Asks(count + 1) ELSE Asks(count)
        BY <2>3 DEF Working
      <3>4. Gone(count)'
        BY <2>1, <3>3 DEF Gone
      <3>5. IF step' = "waiting" THEN count # Len(Stages(req')) /\ Asks(count + 1)' ELSE Asks(count)'
        BY <2>1, <3>3 DEF Asks
      <3> QED BY <2>1, <2>2, <2>3, <3>2, <3>3, <3>4, <3>5 DEF Working
    <2>4. ASSUME AllDone PROVE AllDone'
      <3>1. Len(sent) \in Nat /\ Finished(Len(sent))
        BY <2>4, RequestFacts DEF AllDone
      <3>2. Finished(Len(sent))'
        <4>1. PICK n \in Nat : n = Len(sent)
          BY <3>1
        <4>2. Finished(n)'
          BY <2>1, <3>1, <4>1, FinishedStays
        <4> QED BY <2>1, <4>1, <4>2
      <3> QED BY <2>1, <2>4, <3>2 DEF AllDone
    <2> QED BY <2>1, <2>2, <2>3, <2>4 DEF ImageInv, Begun
  <1>2. CASE ImageNext
    BY <1>2, CheckOptionsStep, StartJobStep, SendStep, FinishFileStep, AnswerStep, CancelStep, PackageStep,
       CheckResultStep DEF ImageNext
  <1> QED BY <1>1, <1>2

LEMMA ImageInvHolds == ImageSpec => []ImageInv
  BY InitImage, StepImage, PTL DEF ImageSpec

-----------------------------------------------------------------------------
(* What it means for those who asked.                                          *)

LEMMA FacesAreRestoredOnce == ImageInv => FaceOnceAtTheEnd
  <1> SUFFICES ASSUME ImageInv, status = "succeeded", req.face # 0, req.op # "remove-background",
                      NEW n \in DOMAIN sent
               PROVE  {i \in DOMAIN sent[n] : sent[n][i].face # 0} = {Len(sent[n])} /\ sent[n] # <<>>
    BY DEF FaceOnceAtTheEnd
  <1> DEFINE plan == Stages(req)
             last == Len(plan)
  <1>1. ValidOptions(req) /\ AllDone
    BY DEF ImageInv
  <1>2. Planned(req, plan) /\ plan \in Seq(StageOf(req)) /\ last \in Nat
    BY <1>1, PlanFacts
  <1>3. sent[n] = plan
    <2>1. DOMAIN sent = 1..Len(sent)
      BY <1>1 DEF AllDone
    <2> QED BY <1>1, <2>1 DEF AllDone, Finished
  <1>4. DOMAIN plan = 1..last
    BY <1>2
  <1>5. last # 0 /\ plan[last].face # 0 /\ \A i \in 1..last : i # last => plan[i].face = 0
    <2> HIDE DEF plan
    <2> QED BY <1>2 DEF Planned
  <1>6. {i \in DOMAIN plan : plan[i].face # 0} = {last}
    <2>1. last \in DOMAIN plan
      <3> HIDE DEF plan, last
      <3> QED BY <1>2, <1>4, <1>5
    <2> HIDE DEF plan, last
    <2> QED BY <1>4, <1>5, <2>1
  <1>7. plan # <<>>
    <2> HIDE DEF plan
    <2> QED BY <1>5
  <1> QED BY <1>3, <1>6, <1>7

\* However stages are combined, whichever services answer and wherever a job
\* fails or is cancelled: what succeeded has its faces restored once and last,
\* the size and the backdrop asked for, and leaves nothing beside its result.
THEOREM ResultsAreAsAsked == ImageSpec => []ResultAsAsked
  <1>1. ASSUME ImageInv PROVE ResultAsAsked
    <2>1. FaceOnceAtTheEnd
      BY <1>1, FacesAreRestoredOnce
    <2>2. ASSUME status = "succeeded"
          PROVE  DOMAIN made = 1..Len(made) /\ Finished(Len(made))
      BY <1>1, <2>2 DEF ImageInv, AllDone, Finished
    <2>3. AskedSize
      BY <2>2 DEF AskedSize, Finished, Factor
    <2>4. AskedBackdrop
      BY <2>2 DEF AskedBackdrop, Finished, Removes, RightBackdrop
    <2>5. OnlyTheResultIsLeft
      BY <1>1 DEF OnlyTheResultIsLeft, ImageInv
    <2> QED BY <2>1, <2>3, <2>4, <2>5 DEF ResultAsAsked
  <1> QED BY <1>1, ImageInvHolds, PTL

\* What the services say to the next stage of a file that the API let through.
LEMMA NextStageIsAccepted ==
    ASSUME {MaxPixels, MaxOutput, FacePixels} \subseteq Nat, MaxPixels <= MaxOutput,
           ImageInv, step = "waiting"
    PROVE  Accepted(Head(todo))
  <1> DEFINE plan == Stages(req)
             n == Len(plan)
             stage == Head(todo)
             pixels == req.files[Len(sent)]
  <1>1. Working /\ ValidOptions(req) /\ \A k \in DOMAIN req.files : ValidImage(req, req.files[k])
    BY DEF ImageInv, Begun
  <1>2. /\ Planned(req, plan) /\ plan \in Seq(StageOf(req)) /\ n \in Nat
        /\ Factor(req) \in {1, 2, 4} /\ Scale(req) \in {1, 2, 4}
    BY <1>1, PlanFacts
  <1>3. PICK count \in 0..n : Gone(count) /\ count # n
    BY <1>1 DEF Working
  <1>4. ValidImage(req, pixels) /\ pixels \in Nat /\ req.files \in Seq(Nat)
    <2>1. Len(sent) \in DOMAIN req.files /\ req.files \in Seq(Nat)
      BY <1>1, RequestFacts DEF Working
    <2> QED BY <1>1, <2>1, ElementOfSeq
  <1>5. image.factor = 1 /\ stage = plan[count + 1] /\ count + 1 \in 1..n
    <2>1. Len(todo) = n - count /\ todo[1] = plan[count + 1] /\ image.factor = 1
      BY <1>2, <1>3 DEF Gone
    <2>2. todo \in Seq(StageOf(req)) /\ todo # <<>>
      BY <1>1, <1>2, <1>3, <2>1, SMTT(30) DEF Working
    <2> QED BY <1>2, <1>3, <2>1, <2>2
  <1>6. Pixels = pixels
    <2>1. Pixels = pixels * 1 * 1
      BY <1>5 DEF Pixels
    <2> HIDE DEF pixels
    <2> QED BY <1>4, <2>1
  <1>7. /\ stage \in StageOf(req)
        /\ count + 1 # n => stage.scale = 1 /\ stage.face = 0
        /\ count + 1 = n => stage.scale = Factor(req) /\ stage.face \in {0, req.face}
        /\ stage.kind = "upscale" => Resolved(stage)
        /\ req.op = "remove-background" => stage.kind = "remove"
    <2> HIDE DEF plan, stage
    <2> QED BY <1>2, <1>5 DEF Planned, n, Removes
  <1> HIDE DEF pixels, stage, plan
  <1>8. Service(stage) = "upscaler" => stage.kind = "upscale"
    BY <1>7 DEF Service, StageOf
  <1>9. ASSUME stage.kind = "upscale"
        PROVE  pixels * stage.scale * stage.scale <= MaxOutput
    <2>1. CASE stage.scale = 1
      BY <1>4, <2>1 DEF ValidImage
    <2>2. CASE stage.scale # 1
      <3>1. stage.scale = Scale(req) /\ req.op \notin {"image-enhance", "remove-background"}
        BY <1>7, <2>2 DEF Factor
      <3>2. CASE req.op = "upscale-preview"
        <4>1. pixels = 0
          BY <1>4, <3>2 DEF ValidImage
        <4> QED BY <1>2, <3>1, <4>1
      <3>3. CASE req.op # "upscale-preview"
        BY <1>4, <2>2, <3>1, <3>3, ImageAssumption DEF ValidImage, ImageInv
      <3> QED BY <3>2, <3>3
    <2> QED BY <2>1, <2>2
  <1>10. ASSUME stage.kind = "upscale", stage.face # 0
         PROVE  pixels * stage.scale * stage.scale <= FacePixels
    <2>1. req.op # "remove-background" /\ req.face # 0
      BY <1>2, <1>5, <1>7, <1>10
    <2>2. pixels * Scale(req) * Scale(req) <= FacePixels
      BY <1>4, <2>1 DEF ValidImage
    <2>3. stage.scale \in {1, Scale(req)}
      BY <1>2, <1>5, <1>7, <1>10 DEF Factor
    <2>4. pixels * stage.scale * stage.scale <= pixels * Scale(req) * Scale(req)
      BY <1>2, <1>4, <2>3
    <2> QED BY <1>2, <1>4, <2>2, <2>3, <2>4
  <1>11. pixels <= MaxPixels
    BY <1>4 DEF ValidImage
  <1> QED BY <1>6, <1>7, <1>8, <1>9, <1>10, <1>11 DEF Accepted, stage

\* Whatever the limits are, as long as an image of the largest size let in may
\* be left at its size: no stage of a job that the API accepted is refused by a
\* service for its options or its size.
THEOREM ServicesAccept ==
    ASSUME MaxPixels <= MaxOutput
    PROVE  ImageSpec => []ServicesAcceptRequests
  <1>1. ASSUME ImageInv PROVE ServicesAcceptRequests
    BY <1>1, MaxPixels <= MaxOutput, ImageAssumption, NextStageIsAccepted DEF ServicesAcceptRequests
  <1> QED BY <1>1, ImageInvHolds, PTL

-----------------------------------------------------------------------------
(* The checks of an uploaded file.                                             *)

UploadSpec == UploadInit /\ [][UploadNext]_uploadVars

Causes ==
    {"no-OLE", "many-streams", "encrypted", "unreadable", "macros", "other-type", "signature", "many-pages",
     "many-pixels", "OLE-inside", "bad-XML", "macro-type", "other-main", "much-XML", "scripts"}
Codes == {"INVALID", "COMPLEX", "PASSWORD", "MACROS", "PAGES", "PIXELS"}
Checks == Causes \X Codes
Looks(checks, fault) == \E i \in DOMAIN checks : checks[i][1] = fault

LEMMA OneCheck ==
    ASSUME NEW cause \in Causes, NEW why \in Codes
    PROVE  <<cause, why>> \in Checks
  BY DEF Checks

\* A file that fails none of the checks has none of their faults.
LEMMA NoneFailed ==
    ASSUME NEW file, NEW checks \in Seq(Checks), FirstFailed(file, checks) = "none", NEW fault, Looks(checks, fault)
    PROVE  fault \notin file.faults
  <1> DEFINE failed == {i \in DOMAIN checks : checks[i][1] \in file.faults}
  <1>1. DOMAIN checks \subseteq Nat /\ \A i \in DOMAIN checks : checks[i] \in Checks
    OBVIOUS
  <1>2. ASSUME failed # {}
        PROVE  Min(failed) \in failed
    <2>1. PICK x \in failed : \A y \in failed : x <= y
      <3>1. failed \in SUBSET Nat
        BY <1>1
      <3> HIDE DEF failed
      <3> QED BY <1>2, <3>1, LeastNumber
    <2> HIDE DEF failed
    <2> QED BY <2>1 DEF Min
  <1>3. failed = {}
    <2> SUFFICES ASSUME failed # {} PROVE FALSE
      OBVIOUS
    <2>1. checks[Min(failed)][2] = "none"
      BY DEF FirstFailed
    <2>2. Min(failed) \in DOMAIN checks
      BY <1>2
    <2> HIDE DEF failed
    <2> QED BY <1>1, <2>1, <2>2 DEF Checks, Codes
  <1> QED BY <1>3 DEF Looks

LEMMA JoinedChecks ==
    ASSUME NEW a \in Seq(Checks), NEW b \in Seq(Checks)
    PROVE  /\ a \o b \in Seq(Checks)
           /\ \A fault : Looks(a, fault) \/ Looks(b, fault) => Looks(a \o b, fault)
  <1> DEFINE c == a \o b
  <1>1. /\ c \in Seq(Checks) /\ Len(c) = Len(a) + Len(b) /\ Len(a) \in Nat /\ Len(b) \in Nat
        /\ \A i \in 1..Len(a) + Len(b) : c[i] = IF i <= Len(a) THEN a[i] ELSE b[i - Len(a)]
    BY ConcatProperties
  <1>2. DOMAIN c = 1..Len(a) + Len(b) /\ DOMAIN a = 1..Len(a) /\ DOMAIN b = 1..Len(b)
    <2> HIDE DEF c
    <2> QED BY <1>1
  <1> HIDE DEF c
  <1>3. ASSUME NEW fault, Looks(a, fault) PROVE Looks(c, fault)
    <2>1. PICK i \in DOMAIN a : a[i][1] = fault
      BY <1>3 DEF Looks
    <2>2. i \in DOMAIN c /\ c[i] = a[i]
      BY <1>1, <1>2
    <2> QED BY <2>1, <2>2 DEF Looks
  <1>4. ASSUME NEW fault, Looks(b, fault) PROVE Looks(c, fault)
    <2>1. PICK i \in DOMAIN b : b[i][1] = fault
      BY <1>4 DEF Looks
    <2>2. Len(a) + i \in DOMAIN c /\ c[Len(a) + i] = b[i]
      BY <1>1, <1>2
    <2> QED BY <2>1, <2>2 DEF Looks
  <1> QED BY <1>1, <1>3, <1>4 DEF c

LEMMA LegacyLooks ==
    /\ LegacyChecks \in Seq(Checks)
    /\ Looks(LegacyChecks, "encrypted") /\ Looks(LegacyChecks, "macros")
  <1>1. LegacyChecks \in Seq(Checks)
    <2>1. /\ <<"no-OLE", "INVALID">> \in Checks /\ <<"many-streams", "COMPLEX">> \in Checks
          /\ <<"encrypted", "PASSWORD">> \in Checks /\ <<"unreadable", "INVALID">> \in Checks
          /\ <<"macros", "MACROS">> \in Checks
      BY OneCheck DEF Causes, Codes
    <2> QED BY <2>1 DEF LegacyChecks
  <1>2. LegacyChecks[3][1] = "encrypted" /\ LegacyChecks[5][1] = "macros" /\ {3, 5} \subseteq DOMAIN LegacyChecks
    BY DEF LegacyChecks
  <1> QED BY <1>1, <1>2 DEF Looks

Bad == {"encrypted", "macros", "macro-type", "scripts"}
Clean(file) == file.faults \cap Bad = {} /\ \A e \in Range(file.entries) : e.name # "macros"

\* What a file that is no archive can have at all.
LEMMA PlainFile ==
    ASSUME NEW file, FaultsFit(file), file.ext \notin Archives,
           file.ext \in {".pdf", ".doc", ".xls"} => "encrypted" \notin file.faults,
           file.ext \in {".doc", ".xls"} => "macros" \notin file.faults
    PROVE  Clean(file)
  <1>1. file.faults \cap Bad = {}
    BY DEF FaultsFit, Bad, Archives
  <1>2. file.entries = <<>>
    BY DEF FaultsFit
  <1>3. Range(<<>>) = {}
    BY DEF Range
  <1> QED BY <1>1, <1>2, <1>3 DEF Clean

\* What is known of a file whose content passed.
LEMMA ContentPassed ==
    ASSUME NEW file \in Files, FaultsFit(file), ContentCheck(file) = "none"
    PROVE  /\ file.ext \notin Archives => Clean(file)
           /\ file.ext \in Archives => "OLE-inside" \notin file.faults
  <1> DEFINE office == file.ext \in WordExtensions \cup SpreadsheetExtensions
             first == IF office THEN << <<"other-type", "INVALID">> >> ELSE <<>>
             pdf == << <<"signature", "INVALID">>, <<"unreadable", "INVALID">>,
                       <<"encrypted", "PASSWORD">>, <<"many-pages", "PAGES">> >>
             inside == IF "OLE-inside" \in file.faults THEN LegacyChecks ELSE <<>>
             archive == << <<"OLE-inside", "INVALID">>, <<"signature", "INVALID">> >>
             signature == << <<"signature", "INVALID">> >>
  <1>1. /\ first \in Seq(Checks) /\ pdf \in Seq(Checks) /\ archive \in Seq(Checks)
        /\ signature \in Seq(Checks) /\ inside \in Seq(Checks)
    <2>1. /\ <<"other-type", "INVALID">> \in Checks /\ <<"signature", "INVALID">> \in Checks
          /\ <<"unreadable", "INVALID">> \in Checks /\ <<"encrypted", "PASSWORD">> \in Checks
          /\ <<"many-pages", "PAGES">> \in Checks /\ <<"OLE-inside", "INVALID">> \in Checks
      BY OneCheck DEF Causes, Codes
    <2>2. first \in Seq(Checks)
      BY <2>1
    <2>3. pdf \in Seq(Checks)
      BY <2>1
    <2>4. archive \in Seq(Checks) /\ signature \in Seq(Checks)
      BY <2>1
    <2>5. inside \in Seq(Checks)
      BY LegacyLooks
    <2> QED BY <2>2, <2>3, <2>4, <2>5
  <1>2. Looks(pdf, "encrypted") /\ Looks(archive, "OLE-inside")
    <2>1. pdf[3][1] = "encrypted" /\ 3 \in DOMAIN pdf /\ archive[1][1] = "OLE-inside" /\ 1 \in DOMAIN archive
      OBVIOUS
    <2> HIDE DEF pdf, archive
    <2> QED BY <2>1 DEF Looks
  <1> HIDE DEF first, pdf, inside, archive, signature
  <1>3. CASE file.ext = ".pdf"
    <2>1. FirstFailed(file, first \o pdf) = "none"
      BY <1>3 DEF ContentCheck, first, pdf, office, ImageExtensions, Archives
    <2>2. "encrypted" \notin file.faults
      BY <1>1, <1>2, <2>1, JoinedChecks, NoneFailed
    <2> QED BY <1>3, <2>2, PlainFile DEF Archives
  <1>4. CASE file.ext \in Archives
    <2>1. FirstFailed(file, first \o (inside \o archive)) = "none"
      BY <1>4 DEF ContentCheck, first, inside, archive, office, Archives, ImageExtensions
    <2>2. inside \o archive \in Seq(Checks) /\ Looks(inside \o archive, "OLE-inside")
      BY <1>1, <1>2, JoinedChecks
    <2>3. first \o (inside \o archive) \in Seq(Checks) /\ Looks(first \o (inside \o archive), "OLE-inside")
      BY <1>1, <2>2, JoinedChecks
    <2> QED BY <1>4, <2>1, <2>3, NoneFailed
  <1>5. CASE file.ext \in {".doc", ".xls"}
    <2>1. FirstFailed(file, first \o (signature \o LegacyChecks)) = "none"
      BY <1>5 DEF ContentCheck, first, signature, office, Archives, ImageExtensions
    <2> DEFINE rest == signature \o LegacyChecks
    <2>2. rest \in Seq(Checks) /\ Looks(rest, "encrypted") /\ Looks(rest, "macros")
      BY <1>1, LegacyLooks, JoinedChecks
    <2> HIDE DEF rest
    <2>3. /\ first \o rest \in Seq(Checks)
          /\ Looks(first \o rest, "encrypted") /\ Looks(first \o rest, "macros")
      BY <1>1, <2>2, JoinedChecks
    <2>4. "encrypted" \notin file.faults /\ "macros" \notin file.faults
      BY <2>1, <2>3, NoneFailed DEF rest
    <2> QED BY <1>5, <2>4, PlainFile DEF Archives
  <1>6. CASE file.ext \notin Archives \cup {".pdf", ".doc", ".xls"}
    BY <1>6, PlainFile
  <1> QED BY <1>3, <1>4, <1>5, <1>6

\* What is known of an archive whose structure passed.
LEMMA StructurePassed ==
    ASSUME NEW file \in Files, FaultsFit(file), file.ext \in Archives, "OLE-inside" \notin file.faults,
           NEW names, names = {file.entries[i].name : i \in 1..Len(file.entries)},
           StructureCheck(file, names) = "none"
    PROVE  Clean(file)
  <1>1. DOMAIN file.entries = 1..Len(file.entries)
    <2>1. file.entries \in Seq(Entries)
      BY DEF Files
    <2> QED BY <2>1, LenProperties
  <1>2. "macros" \notin names
    BY DEF StructureCheck
  <1>3. \A e \in Range(file.entries) : e.name # "macros"
    BY <1>1, <1>2 DEF Range
  <1>4. "macros" \notin file.faults
    BY DEF FaultsFit, Archives
  <1>5. CASE file.ext \in {".docx", ".xlsx"}
    <2> DEFINE checks == << <<"bad-XML", "INVALID">>, <<"macro-type", "MACROS">>, <<"other-main", "INVALID">> >>
    <2>1. FirstFailed(file, checks) = "none"
      BY <1>2, <1>5 DEF StructureCheck
    <2>2. checks \in Seq(Checks) /\ checks[2][1] = "macro-type" /\ 2 \in DOMAIN checks
      <3>1. <<"bad-XML", "INVALID">> \in Checks /\ <<"macro-type", "MACROS">> \in Checks /\ <<"other-main", "INVALID">> \in Checks
        BY OneCheck DEF Causes, Codes
      <3> QED BY <3>1
    <2> HIDE DEF checks
    <2>3. Looks(checks, "macro-type")
      BY <2>2 DEF Looks
    <2>4. "macro-type" \notin file.faults
      BY <2>1, <2>2, <2>3, NoneFailed
    <2> QED BY <1>3, <1>4, <1>5, <2>4 DEF FaultsFit, Clean, Bad
  <1>6. CASE file.ext \in {".odt", ".ods"}
    <2> DEFINE checks == << <<"much-XML", "COMPLEX">>, <<"bad-XML", "INVALID">>, <<"scripts", "MACROS">> >>
    <2>1. FirstFailed(file, checks) = "none"
      BY <1>2, <1>6 DEF StructureCheck
    <2>2. checks \in Seq(Checks) /\ checks[3][1] = "scripts" /\ 3 \in DOMAIN checks
      <3>1. <<"much-XML", "COMPLEX">> \in Checks /\ <<"bad-XML", "INVALID">> \in Checks /\ <<"scripts", "MACROS">> \in Checks
        BY OneCheck DEF Causes, Codes
      <3> QED BY <3>1
    <2> HIDE DEF checks
    <2>3. Looks(checks, "scripts")
      BY <2>2 DEF Looks
    <2>4. "scripts" \notin file.faults
      BY <2>1, <2>2, <2>3, NoneFailed
    <2>5. ~("manifest" \in names /\ "encrypted" \in file.faults)
      BY <1>2, <1>6 DEF StructureCheck
    <2>6. "encrypted" \notin file.faults
      BY <1>1, <1>6, <2>5 DEF FaultsFit, Archives
    <2> QED BY <1>3, <1>4, <1>6, <2>4, <2>6 DEF FaultsFit, Clean, Bad
  <1> QED BY <1>5, <1>6 DEF Archives

-----------------------------------------------------------------------------
(* What holds of a request between the steps of its checks.                    *)

Handling == {"save", "content", "entries", "scan"}

\* A file that the checks are through with.
Passed(i) ==
    /\ uploads[i].ext \in AllowedExtensions
    /\ Clean(uploads[i])
    /\ ScannerRequired => replies[i] # "none"
    /\ "malware" \in uploads[i].faults => replies[i] \in {"no word", "none"}

UploadPlaced ==
    /\ uploads \in Uploads
    /\ at \in {"start", "open", "accepted", "refused"} \cup Handling
    /\ input \in Seq(Nat)
    /\ at \in {"start", "refused"} => input = <<>>
    /\ at = "open" => Len(input) < Len(uploads)
    /\ at \in Handling => Len(input) \in 1..Len(uploads)
    /\ at = "save" => read \in 0..Len(File.chunks)
    /\ at = "accepted" => Len(input) = Len(uploads)

Words == {"FOUND", "OK", "no word", "none"}

\* Every file that is through has its reply, and no other file.
UploadsScanned ==
    /\ replies \in Seq(Words)
    /\ at \in {"start", "open", "accepted"} => Len(replies) = Len(input)
    /\ at \in Handling => Len(replies) = Len(input) - 1

UploadsPassed ==
    /\ at \in {"open", "accepted"} => \A i \in 1..Len(input) : Passed(i)
    /\ at \in Handling => /\ \A i \in 1..Len(input) - 1 : Passed(i)
                          /\ File.ext \in AllowedExtensions
    /\ at = "entries" => File.ext \in Archives /\ "OLE-inside" \notin File.faults
    /\ at = "scan" => Clean(File)

Sizes(entries) == [i \in DOMAIN entries |-> entries[i].size]
MediaSizes(entries) == [i \in DOMAIN entries |-> IF entries[i].media THEN entries[i].size ELSE 0]
Media(entries) == [i \in DOMAIN entries |-> IF entries[i].media THEN 1 ELSE 0]

\* The walk has come to entry `pos' and refused none.
Walked(walk, entries, pos) ==
    /\ walk.names = {entries[i].name : i \in 1..pos}
    /\ \A i, k \in 1..pos : i # k => entries[i].name # entries[k].name
    /\ \A i \in 1..pos : entries[i].name # "outside" /\ ~entries[i].dense
    /\ walk.unpacked = SumOn(Sizes(entries), 1..pos) /\ walk.unpacked <= MaxUnpacked
    /\ walk.media = SumOn(MediaSizes(entries), 1..pos) /\ walk.media <= MaxMedia
    /\ walk.mediaFiles = SumOn(Media(entries), 1..pos) /\ walk.mediaFiles <= MaxMediaFiles

Seen == [file : Nat, pos : Nat, names : SUBSET STRING, unpacked : Nat, media : Nat, mediaFiles : Nat,
         refused : BOOLEAN]

UploadWalked ==
    /\ seen \in Seen /\ seen.file \in 0..Len(uploads)
    /\ seen.file # 0 =>
         LET entries == uploads[seen.file].entries
         IN  /\ seen.refused => ~ArchiveFits(entries)
             /\ ~seen.refused => seen.pos \in 0..Len(entries) /\ Walked(seen, entries, seen.pos)
    /\ at = "entries" => seen.file = Len(input) /\ ~seen.refused /\ Len(File.entries) <= MaxEntries

UploadInv == UploadPlaced /\ UploadsScanned /\ UploadsPassed /\ UploadsWithinLimits /\ UploadWalked

LEMMA UploadFacts ==
    ASSUME UploadPlaced, NEW i \in 1..Len(uploads)
    PROVE  /\ uploads \in Seq(Files) /\ Len(uploads) \in Nat /\ DOMAIN uploads = 1..Len(uploads)
           /\ uploads[i] \in Files /\ FaultsFit(uploads[i])
           /\ uploads[i].chunks \in Seq(Nat) /\ Len(uploads[i].chunks) \in Nat
           /\ uploads[i].entries \in Seq(Entries)
           /\ Len(uploads[i].entries) \in Nat /\ DOMAIN uploads[i].entries = 1..Len(uploads[i].entries)
  <1>1. uploads \in Seq(Files) /\ \A k \in DOMAIN uploads : FaultsFit(uploads[k])
    BY UploadAssumption DEF UploadPlaced
  <1>2. Len(uploads) \in Nat /\ DOMAIN uploads = 1..Len(uploads)
    BY <1>1, LenProperties
  <1>3. uploads[i] \in Files /\ FaultsFit(uploads[i])
    BY <1>1, <1>2, ElementOfSeq
  <1>4. uploads[i].chunks \in Seq(Nat) /\ uploads[i].entries \in Seq(Entries)
    BY <1>3 DEF Files
  <1> QED BY <1>1, <1>2, <1>3, <1>4, LenProperties

LEMMA UploadsAreSequences ==
    ASSUME UploadPlaced
    PROVE  Len(uploads) \in Nat /\ DOMAIN uploads = 1..Len(uploads)
  <1>1. uploads \in Seq(Files)
    BY UploadAssumption DEF UploadPlaced
  <1> QED BY <1>1, LenProperties

-----------------------------------------------------------------------------
(* Where a request is, and which of its files are through.                     *)

LEMMA PlacedStep ==
    ASSUME UploadPlaced, [UploadNext]_uploadVars
    PROVE  UploadPlaced'
  <1> USE UploadsAreSequences DEF UploadPlaced, Handling
  <1>1. <<>> \in Seq(Nat)
    OBVIOUS
  <1>2. CASE StartRequest
    <2>1. CASE Refuse("INVALID")
      BY <1>1, <1>2, <2>1 DEF StartRequest, Refuse
    <2>2. CASE ~Refuse("INVALID")
      <3>1. /\ at = "start" /\ at' = "open" /\ input' = input /\ uploads' = uploads
            /\ Len(uploads) \in 1..MaxFiles
        BY <1>2, <2>2 DEF StartRequest
      <3>2. Len(input') = 0
        BY <3>1
      <3> QED BY <3>1, <3>2
    <2> QED BY <2>1, <2>2
  <1>3. CASE OpenFile
    <2>1. CASE uploads[Len(input) + 1].ext \notin AllowedExtensions
      BY <1>1, <1>3, <2>1 DEF OpenFile, Refuse
    <2>2. CASE uploads[Len(input) + 1].ext \in AllowedExtensions
      <3>1. at = "open" /\ input' = Append(input, 0) /\ at' = "save" /\ read' = 0 /\ uploads' = uploads
        BY <1>3, <2>2 DEF OpenFile
      <3>2. input' \in Seq(Nat) /\ Len(input') = Len(input) + 1 /\ Len(input) \in Nat
        BY <3>1, AppendProperties, LenProperties
      <3>3. Len(input') \in 1..Len(uploads)
        BY <3>1, <3>2
      <3>4. Len(uploads[Len(input')].chunks) \in Nat
        BY <3>3, UploadFacts
      <3> QED BY <3>1, <3>2, <3>3, <3>4 DEF File
    <2> QED BY <2>1, <2>2
  <1>4. CASE SaveChunk
    <2>1. Len(input) \in 1..Len(uploads) /\ Len(input) \in Nat
      BY <1>4, LenProperties DEF SaveChunk
    <2>2. File.chunks \in Seq(Nat) /\ Len(File.chunks) \in Nat
      BY <2>1, UploadFacts DEF File
    <2>3. /\ at = "save" /\ read < Len(File.chunks) /\ read' = read + 1 /\ uploads' = uploads
          /\ \/ at' = "refused" /\ input' = <<>>
             \/ at' = at /\ input' = [input EXCEPT ![Len(input)] = input[Len(input)] + File.chunks[read + 1]]
      BY <1>4 DEF SaveChunk, Refuse
    <2>4. CASE at' = "refused" /\ input' = <<>>
      BY <1>1, <2>3, <2>4
    <2>5. CASE at' = at /\ input' = [input EXCEPT ![Len(input)] = input[Len(input)] + File.chunks[read + 1]]
      <3>1. read + 1 \in 1..Len(File.chunks)
        BY <2>2, <2>3
      <3>2. input[Len(input)] \in Nat /\ File.chunks[read + 1] \in Nat /\ Len(input) \in 1..Len(input)
        BY <2>1, <2>2, <3>1, ElementOfSeq
      <3>3. input' \in Seq(Nat) /\ Len(input') = Len(input)
        BY <2>5, <3>2, ExceptSeq
      <3>4. File' = File
        BY <2>3, <3>3 DEF File
      <3> QED BY <2>1, <2>3, <2>5, <3>1, <3>3, <3>4
    <2> QED BY <2>3, <2>4, <2>5
  <1>5. CASE EndFile
    BY <1>1, <1>5 DEF EndFile, Refuse
  <1>6. CASE CheckContent
    BY <1>1, <1>6 DEF CheckContent, Refuse
  <1>7. CASE CheckEntry
    <2>1. /\ at = "entries" /\ uploads' = uploads
          /\ \/ at' = "refused" /\ input' = <<>>
             \/ at' = at /\ input' = input
      BY <1>7 DEF CheckEntry, Refuse
    <2> QED BY <1>1, <2>1
  <1>8. CASE CheckStructure
    BY <1>1, <1>8 DEF CheckStructure, Refuse
  <1>9. CASE Scan
    <2>1. /\ at = "scan" /\ uploads' = uploads
          /\ \/ at' = "refused" /\ input' = <<>>
             \/ at' = "accepted" /\ Len(input) = Len(uploads) /\ input' = input
             \/ at' = "open" /\ Len(input) # Len(uploads) /\ input' = input
      BY <1>9 DEF Scan, Refuse
    <2>2. Len(input) \in 1..Len(uploads) /\ Len(input) \in Nat
      BY <2>1
    <2>3. CASE at' = "refused" /\ input' = <<>>
      BY <1>1, <2>1, <2>3
    <2>4. CASE at' = "accepted" /\ Len(input) = Len(uploads) /\ input' = input
      BY <2>1, <2>4
    <2>5. CASE at' = "open" /\ Len(input) # Len(uploads) /\ input' = input
      BY <2>1, <2>2, <2>5
    <2> QED BY <2>1, <2>3, <2>4, <2>5
  <1>10. CASE UNCHANGED uploadVars
    BY <1>10 DEF uploadVars, File
  <1> QED BY <1>2, <1>3, <1>4, <1>5, <1>6, <1>7, <1>8, <1>9, <1>10 DEF UploadNext

LEMMA RepliesAreWords ==
    ASSUME NEW file, NEW reply \in Replies(file)
    PROVE  reply \in Words
  BY DEF Replies, Words

LEMMA ScannedStep ==
    ASSUME UploadPlaced, UploadsScanned, [UploadNext]_uploadVars
    PROVE  UploadsScanned'
  <1> USE DEF UploadPlaced, UploadsScanned, Handling
  <1>1. CASE at' = "refused" /\ UNCHANGED replies
    BY <1>1
  <1>2. CASE at' = "open" /\ at = "start" /\ UNCHANGED <<input, replies>>
    BY <1>2
  <1>3. CASE at = "open" /\ at' = "save" /\ input' = Append(input, 0) /\ UNCHANGED replies
    <2>1. Len(input') = Len(input) + 1 /\ Len(input) \in Nat
      BY <1>3, AppendProperties, LenProperties
    <2> QED BY <1>3, <2>1
  <1>4. CASE at \in Handling /\ at' \in Handling /\ Len(input') = Len(input) /\ UNCHANGED replies
    BY <1>4
  <1>5. CASE Scan
    <2>1. PICK reply \in Replies(File) :
               /\ replies' = Append(replies, reply)
               /\ \/ at' = "refused"
                  \/ at' \in {"open", "accepted"} /\ input' = input
      BY <1>5 DEF Scan, Refuse
    <2>2. reply \in Words /\ at = "scan"
      BY <1>5, <2>1, RepliesAreWords DEF Scan
    <2>3. replies' \in Seq(Words) /\ Len(replies') = Len(replies) + 1 /\ Len(input) \in Nat
      BY <2>1, <2>2, AppendProperties, LenProperties
    <2> QED BY <2>1, <2>2, <2>3
  <1>6. CASE UNCHANGED uploadVars
    BY <1>6 DEF uploadVars
  <1>7. CASE SaveChunk
    <2>1. /\ at = "save" /\ UNCHANGED replies
          /\ \/ at' = "refused"
             \/ at' = at /\ Len(input') = Len(input)
      BY <1>7 DEF SaveChunk, Refuse
    <2> QED BY <1>1, <1>4, <2>1
  <1>8. CASE EndFile \/ CheckContent \/ CheckEntry \/ CheckStructure
    <2>1. /\ at \in Handling /\ UNCHANGED replies
          /\ \/ at' = "refused"
             \/ at' \in Handling /\ Len(input') = Len(input)
      BY <1>8 DEF EndFile, CheckContent, CheckEntry, CheckStructure, Refuse
    <2> QED BY <1>1, <1>4, <2>1
  <1>9. CASE StartRequest
    BY <1>1, <1>2, <1>9 DEF StartRequest, Refuse
  <1>10. CASE OpenFile
    BY <1>1, <1>3, <1>10 DEF OpenFile, Refuse
  <1> QED BY <1>5, <1>6, <1>7, <1>8, <1>9, <1>10 DEF UploadNext

\* A step that goes on with the same file.
LEMMA SameFile ==
    ASSUME UploadPlaced, UploadsPassed, at \in Handling, at' \in Handling,
           UNCHANGED <<uploads, op, replies>>, Len(input') = Len(input),
           at' = "entries" => File.ext \in Archives /\ "OLE-inside" \notin File.faults,
           at' = "scan" => Clean(File)
    PROVE  UploadsPassed'
  <1>1. File' = File /\ AllowedExtensions' = AllowedExtensions
    BY DEF File, AllowedExtensions
  <1>2. \A i : Passed(i)' <=> Passed(i)
    BY <1>1 DEF Passed
  <1> QED BY <1>1, <1>2 DEF UploadsPassed, Handling

LEMMA Refused ==
    ASSUME NEW why, Refuse(why)
    PROVE  UploadsPassed'
  BY DEF Refuse, UploadsPassed, Handling

LEMMA PassedStep ==
    ASSUME UploadInv, [UploadNext]_uploadVars
    PROVE  UploadsPassed'
  <1> USE DEF UploadInv
  <1>1. CASE StartRequest
    <2>1. CASE Refuse("INVALID")
      BY <2>1, Refused
    <2>2. CASE ~Refuse("INVALID")
      <3>1. at = "start" /\ at' = "open" /\ input' = input
        BY <1>1, <2>2 DEF StartRequest
      <3>2. Len(input') = 0
        BY <3>1 DEF UploadPlaced
      <3> QED BY <3>1, <3>2 DEF UploadsPassed, Handling
    <2> QED BY <2>1, <2>2
  <1>2. CASE OpenFile
    <2>1. CASE uploads[Len(input) + 1].ext \notin AllowedExtensions
      BY <1>2, <2>1, Refused DEF OpenFile
    <2>2. CASE uploads[Len(input) + 1].ext \in AllowedExtensions
      <3>1. /\ at = "open" /\ input' = Append(input, 0) /\ at' = "save" /\ UNCHANGED <<uploads, op, replies>>
        BY <1>2, <2>2 DEF OpenFile
      <3>2. Len(input') = Len(input) + 1 /\ Len(input) \in Nat
        BY <3>1, AppendProperties, LenProperties DEF UploadPlaced
      <3>3. AllowedExtensions' = AllowedExtensions /\ File' = uploads[Len(input) + 1]
        BY <3>1, <3>2 DEF AllowedExtensions, File
      <3>4. \A i : Passed(i)' <=> Passed(i)
        BY <3>1, <3>3 DEF Passed
      <3> QED BY <2>2, <3>1, <3>2, <3>3, <3>4 DEF UploadsPassed, Handling
    <2> QED BY <2>1, <2>2
  <1>3. CASE SaveChunk
    <2>1. CASE \E why : Refuse(why)
      BY <2>1, Refused
    <2>2. CASE ~\E why : Refuse(why)
      <3>1. /\ at = "save" /\ at' = at /\ UNCHANGED <<uploads, op, replies>>
            /\ input' = [input EXCEPT ![Len(input)] = input[Len(input)] + File.chunks[read + 1]]
        BY <1>3, <2>2 DEF SaveChunk
      <3>2. Len(input') = Len(input)
        BY <3>1 DEF UploadPlaced
      <3> QED BY <3>1, <3>2, SameFile DEF Handling
    <2> QED BY <2>1, <2>2
  <1>4. CASE EndFile
    <2>1. CASE \E why : Refuse(why)
      BY <2>1, Refused
    <2>2. CASE ~\E why : Refuse(why)
      BY <1>4, <2>2, SameFile DEF EndFile, Handling
    <2> QED BY <2>1, <2>2
  <1>5. CASE CheckContent
    <2>1. CASE \E why : Refuse(why)
      BY <2>1, Refused
    <2>2. CASE ~\E why : Refuse(why)
      <3>1. /\ at = "content" /\ ContentCheck(File) = "none"
            /\ UNCHANGED <<uploads, op, input, replies>>
            /\ IF File.ext \notin Archives THEN at' = "scan" ELSE at' = "entries"
        BY <1>5, <2>2 DEF CheckContent
      <3>2. File \in Files /\ FaultsFit(File)
        BY <3>1, UploadFacts DEF UploadPlaced, Handling, File
      <3>3. /\ File.ext \notin Archives => Clean(File)
            /\ File.ext \in Archives => "OLE-inside" \notin File.faults
        BY <3>1, <3>2, ContentPassed
      <3> QED BY <3>1, <3>3, SameFile DEF Handling
    <2> QED BY <2>1, <2>2
  <1>6. CASE CheckEntry
    <2>1. CASE \E why : Refuse(why)
      BY <2>1, Refused
    <2>2. CASE ~\E why : Refuse(why)
      <3>1. at = "entries" /\ at' = at /\ UNCHANGED <<uploads, op, input, replies>>
        BY <1>6, <2>2 DEF CheckEntry
      <3> QED BY <3>1, SameFile DEF Handling, UploadsPassed
    <2> QED BY <2>1, <2>2
  <1>7. CASE CheckStructure
    <2>1. CASE \E why : Refuse(why)
      BY <2>1, Refused
    <2>2. CASE ~\E why : Refuse(why)
      <3>1. /\ at = "entries" /\ at' = "scan" /\ UNCHANGED <<uploads, op, input, replies>>
            /\ StructureCheck(File, seen.names) = "none" /\ seen.pos = Len(File.entries)
        BY <1>7, <2>2 DEF CheckStructure
      <3>2. File \in Files /\ FaultsFit(File) /\ Len(input) \in 1..Len(uploads) /\ Len(input) # 0
        BY <3>1, UploadFacts DEF UploadPlaced, Handling, File
      <3>3. File.ext \in Archives /\ "OLE-inside" \notin File.faults
        BY <3>1 DEF UploadsPassed
      <3>4. seen.names = {File.entries[i].name : i \in 1..Len(File.entries)}
        BY <3>1, <3>2 DEF UploadWalked, Walked, File
      <3>5. Clean(File)
        BY <3>1, <3>2, <3>3, <3>4, StructurePassed
      <3> QED BY <3>1, <3>5, SameFile DEF Handling
    <2> QED BY <2>1, <2>2
  <1>8. CASE Scan
    <2>1. CASE \E why : Refuse(why)
      BY <2>1, Refused
    <2>2. CASE ~\E why : Refuse(why)
      <3>1. PICK reply \in Replies(File) :
                 /\ replies' = Append(replies, reply) /\ ScanCheck(reply) = "none"
                 /\ at = "scan" /\ at' \in {"open", "accepted"} /\ UNCHANGED <<uploads, op, input>>
        BY <1>8, <2>2 DEF Scan
      <3>2. /\ Len(input) \in Nat /\ Len(replies) = Len(input) - 1 /\ replies \in Seq(Words)
            /\ reply \in Words
        BY <3>1, LenProperties, RepliesAreWords DEF UploadPlaced, UploadsScanned, Handling
      <3>3. replies'[Len(input)] = reply /\ \A i \in 1..Len(input) - 1 : replies'[i] = replies[i]
        BY <3>1, <3>2, AppendProperties
      <3>4. AllowedExtensions' = AllowedExtensions /\ File' = File
        BY <3>1 DEF AllowedExtensions, File
      <3>5. \A i \in 1..Len(input) - 1 : Passed(i)'
        BY <3>1, <3>3, <3>4 DEF Passed, UploadsPassed, Handling
      <3>6. /\ ScannerRequired => reply # "none"
            /\ "malware" \in File.faults => reply \in {"no word", "none"}
        BY <3>1 DEF ScanCheck, PassedWithoutReply, Replies
      <3>7. Passed(Len(input))'
        BY <3>1, <3>3, <3>4, <3>6 DEF Passed, UploadsPassed, Handling, File
      <3>8. \A i \in 1..Len(input') : Passed(i)'
        BY <3>1, <3>2, <3>5, <3>7
      <3> QED BY <3>1, <3>8 DEF UploadsPassed, Handling
    <2> QED BY <2>1, <2>2
  <1>9. CASE UNCHANGED uploadVars
    BY <1>9 DEF uploadVars, UploadsPassed, Passed, File, AllowedExtensions
  <1> QED BY <1>1, <1>2, <1>3, <1>4, <1>5, <1>6, <1>7, <1>8, <1>9 DEF UploadNext
-----------------------------------------------------------------------------
(* What a request has taken of its bytes.                                      *)

LEMMA TotalIsSum ==
    ASSUME NEW s \in Seq(Nat)
    PROVE  /\ Len(s) \in Nat /\ DOMAIN s = 1..Len(s) /\ s \in [1..Len(s) -> Nat]
           /\ IsFiniteSet(1..Len(s))
           /\ SumFunction(s) = SumOn(s, 1..Len(s)) /\ SumFunction(s) \in Nat
  <1>1. Len(s) \in Nat /\ DOMAIN s = 1..Len(s) /\ s \in [1..Len(s) -> Nat]
    BY LenProperties
  <1>2. IsFiniteSet(1..Len(s))
    BY <1>1, FS_Interval
  <1>3. SumFunction(s) = SumOn(s, 1..Len(s))
    BY <1>1 DEF SumFunction, SumFunctionOnSet, SumOn
  <1>4. SumOn(s, 1..Len(s)) \in Nat
    BY <1>1, <1>2, SumIsNumber
  <1> QED BY <1>1, <1>2, <1>3, <1>4

\* A file begun adds nothing yet.
LEMMA TotalWithBegun == \A s, t : s \in Seq(Nat) /\ t = Append(s, 0) => SumFunction(t) = SumFunction(s)
  <1>1. SUFFICES ASSUME NEW s, NEW t, s \in Seq(Nat) /\ t = Append(s, 0)
                 PROVE  SumFunction(t) = SumFunction(s)
    BY Zenon
  <1>2. /\ t \in Seq(Nat) /\ Len(t) = Len(s) + 1 /\ t[Len(s) + 1] = 0 /\ Len(s) \in Nat
        /\ \A i \in 1..Len(s) : t[i] = s[i]
    BY <1>1, AppendProperties, LenProperties
  <1>3. PICK n \in Nat : n = Len(s)
    BY <1>2
  <1>4. /\ s \in [1..n -> Nat] /\ SumFunction(s) = SumOn(s, 1..n)
        /\ t \in [1..n + 1 -> Nat] /\ SumFunction(t) = SumOn(t, 1..n + 1)
    BY <1>1, <1>2, <1>3, TotalIsSum
  <1>5. t[n + 1] = 0 /\ \A i \in 1..n : t[i] = s[i]
    BY <1>2, <1>3
  <1>6. SumOn(t, 1..n + 1) = SumOn(s, 1..n)
    BY <1>4, <1>5, SumWithNothing
  <1> QED BY <1>4, <1>6

\* A file that grew adds what it grew by.
LEMMA TotalOfGrown ==
    \A s, i, n, t :
        s \in Seq(Nat) /\ i \in 1..Len(s) /\ n \in Nat /\ t = [s EXCEPT ![i] = n] =>
            /\ SumFunction(t) \in Nat /\ SumFunction(t) = (SumFunction(s) - s[i]) + n
            /\ SumFunction(s) - s[i] \in Nat
  <1>1. SUFFICES ASSUME NEW s, NEW i, NEW n, NEW t,
                        s \in Seq(Nat) /\ i \in 1..Len(s) /\ n \in Nat /\ t = [s EXCEPT ![i] = n]
                 PROVE  /\ SumFunction(t) \in Nat /\ SumFunction(t) = (SumFunction(s) - s[i]) + n
                        /\ SumFunction(s) - s[i] \in Nat
    BY Zenon
  <1>2. t \in Seq(Nat) /\ Len(t) = Len(s) /\ t[i] = n /\ \A k \in 1..Len(s) : k # i => s[k] = t[k]
    BY <1>1, ExceptSeq
  <1>3. PICK S : S = 1..Len(s)
    OBVIOUS
  <1>4. /\ s \in [S -> Nat] /\ t \in [S -> Nat] /\ IsFiniteSet(S) /\ i \in S
        /\ SumFunction(s) = SumOn(s, S) /\ SumFunction(t) = SumOn(t, S)
    BY <1>1, <1>2, <1>3, TotalIsSum
  <1>5. \A y \in S \ {i} : s[y] = t[y]
    BY <1>2, <1>3
  <1>6. PICK rest \in Nat : SumOn(s, S) = rest + s[i] /\ SumOn(t, S) = rest + t[i]
    BY <1>4, <1>5, SumOfReplaced
  <1>7. s[i] \in Nat /\ n \in Nat /\ t[i] = n
    BY <1>1, <1>2, <1>4
  <1> QED BY <1>4, <1>6, <1>7

LEMMA LimitsAreNumbers ==
    ASSUME NEW file
    PROVE  LimitOf(file) \in Nat /\ MaxJob \in Nat
  BY UploadAssumption DEF LimitOf

LEMMA NothingTaken ==
    ASSUME NEW files
    PROVE  SumFunction(<<>>) <= MaxJob /\ \A i \in DOMAIN <<>> : <<>>[i] <= LimitOf(files[i])
  <1>1. <<>> \in [{} -> Nat] /\ DOMAIN <<>> = {}
    OBVIOUS
  <1>2. SumFunction(<<>>) = 0
    BY <1>1, SumOfNothing DEF SumFunction, SumFunctionOnSet, SumOn
  <1> QED BY <1>1, <1>2, LimitsAreNumbers

LEMMA RefusedWithinLimits ==
    ASSUME NEW why, Refuse(why)
    PROVE  UploadsWithinLimits'
  <1>1. input' = <<>>
    BY DEF Refuse
  <1> QED BY <1>1, NothingTaken DEF UploadsWithinLimits, Total

LEMMA LimitsStep ==
    ASSUME UploadInv, [UploadNext]_uploadVars
    PROVE  UploadsWithinLimits'
  <1> USE DEF UploadInv
  <1>1. CASE \E why : Refuse(why)
    BY <1>1, RefusedWithinLimits
  <1>2. CASE OpenFile /\ ~\E why : Refuse(why)
    <2>1. input' = Append(input, 0) /\ uploads' = uploads /\ input \in Seq(Nat)
      BY <1>2 DEF OpenFile, UploadPlaced
    <2>2. Total' = Total
      BY <2>1, TotalWithBegun DEF Total
    <2>3. /\ Len(input) \in Nat /\ DOMAIN input = 1..Len(input) /\ DOMAIN input' = 1..Len(input) + 1
          /\ input'[Len(input) + 1] = 0 /\ \A i \in 1..Len(input) : input'[i] = input[i]
      BY <2>1, AppendProperties, LenProperties
    <2>4. ASSUME NEW i \in DOMAIN input'
          PROVE  input'[i] <= LimitOf(uploads[i])
      <3>1. i \in 1..Len(input) \/ i = Len(input) + 1
        BY <2>3
      <3> QED BY <2>3, <3>1, LimitsAreNumbers DEF UploadsWithinLimits
    <2> QED BY <2>1, <2>2, <2>4 DEF UploadsWithinLimits, LimitOf, ImageExtensions
  <1>3. CASE SaveChunk /\ ~\E why : Refuse(why)
    <2>1. PICK current : current = Len(input)
      OBVIOUS
    <2>2. PICK written : written = input[current] + File.chunks[read + 1]
      OBVIOUS
    <2>3. /\ at = "save" /\ read < Len(File.chunks) /\ uploads' = uploads
          /\ ~(written > LimitOf(File)) /\ ~(written > MaxJob - (Total - input[current]))
          /\ input' = [input EXCEPT ![current] = written]
      BY <1>3, <2>1, <2>2 DEF SaveChunk, Remaining
    <2>4. /\ input \in Seq(Nat) /\ current \in 1..Len(input) /\ current \in 1..Len(uploads) /\ read \in Nat
          /\ DOMAIN input = 1..Len(input) /\ Len(input) \in Nat
      BY <2>1, <2>3, LenProperties DEF UploadPlaced, Handling
    <2>5. File.chunks \in Seq(Nat) /\ Len(File.chunks) \in Nat
      BY <2>1, <2>4, UploadFacts DEF File
    <2>6. read + 1 \in 1..Len(File.chunks)
      BY <2>3, <2>4, <2>5
    <2>7. input[current] \in Nat /\ File.chunks[read + 1] \in Nat
      BY <2>4, <2>5, <2>6, ElementOfSeq
    <2>8. written \in Nat
      BY <2>2, <2>7
    <2>9. Total' = (Total - input[current]) + written /\ Total - input[current] \in Nat
      BY <2>3, <2>4, <2>8, TotalOfGrown DEF Total
    <2>10. Total' <= MaxJob
      BY <2>3, <2>8, <2>9, LimitsAreNumbers
    <2>11. DOMAIN input' = DOMAIN input /\ \A i \in DOMAIN input : input'[i] = IF i = current THEN written ELSE input[i]
      BY <2>3, <2>4
    <2>12. written <= LimitOf(uploads[current])
      BY <2>1, <2>3, <2>8, LimitsAreNumbers DEF File
    <2>13. \A i \in DOMAIN input' : input'[i] <= LimitOf(uploads[i])
      BY <2>11, <2>12 DEF UploadsWithinLimits
    <2> QED BY <2>3, <2>10, <2>13 DEF UploadsWithinLimits, LimitOf, ImageExtensions
  <1>4. CASE UNCHANGED <<uploads, input>>
    BY <1>4 DEF UploadsWithinLimits, Total, LimitOf, ImageExtensions
  <1>5. \/ \E why : Refuse(why)
        \/ OpenFile /\ ~\E why : Refuse(why)
        \/ SaveChunk /\ ~\E why : Refuse(why)
        \/ UNCHANGED <<uploads, input>>
    BY DEF UploadNext, StartRequest, EndFile, CheckContent, CheckEntry, CheckStructure, Scan, uploadVars
  <1> QED BY <1>1, <1>2, <1>3, <1>4, <1>5
-----------------------------------------------------------------------------
(* The walk over an archive's entries.                                         *)

\* The sums of a sequence's first numbers.
LEMMA SumsOfFirst ==
    ASSUME NEW n \in Nat, NEW u \in [1..n -> Nat], NEW p \in 0..n
    PROVE  /\ SumOn(u, 1..p) \in Nat /\ SumOn(u, 1..n) \in Nat /\ SumOn(u, 1..p) <= SumOn(u, 1..n)
           /\ p = 0 => SumOn(u, 1..p) = 0
           /\ p < n => SumOn(u, 1..p + 1) = SumOn(u, 1..p) + u[p + 1]
  <1>1. PICK N : N = 1..n
    OBVIOUS
  <1>2. PICK P : P = 1..p
    OBVIOUS
  <1>3. IsFiniteSet(N) /\ IsFiniteSet(P) /\ P \in SUBSET N /\ u \in [N -> Nat]
    <2>1. P \in SUBSET N /\ 1 \in Int /\ n \in Int
      BY <1>1, <1>2
    <2>2. IsFiniteSet(N)
      BY <1>1, <2>1, FS_Interval
    <2> QED BY <1>1, <2>1, <2>2, FS_Subset
  <1>4. SumOn(u, P) \in Nat /\ SumOn(u, N) \in Nat /\ SumOn(u, P) <= SumOn(u, N)
    <2>1. SumOn(u, P) \in Nat
      BY <1>3, SumIsNumber
    <2>2. SumOn(u, N) \in Nat
      BY <1>3, SumIsNumber
    <2>3. SumOn(u, P) <= SumOn(u, N)
      BY <1>3, SumOfPart
    <2> QED BY <2>1, <2>2, <2>3
  <1>5. ASSUME p = 0 PROVE SumOn(u, P) = 0
    <2>1. P = {}
      BY <1>2, <1>5
    <2> QED BY <2>1, SumOfNothing
  <1>6. ASSUME p < n PROVE SumOn(u, 1..p + 1) = SumOn(u, P) + u[p + 1]
    <2>1. PICK x : x = p + 1
      OBVIOUS
    <2>2. 1..p + 1 = P \cup {x} /\ x \in N \ P
      BY <1>1, <1>2, <1>6, <2>1
    <2>3. SumOn(u, P \cup {x}) = SumOn(u, P) + u[x]
      BY <1>3, <2>2, SumWithOneMore
    <2> QED BY <2>1, <2>2, <2>3
  <1> QED BY <1>1, <1>2, <1>4, <1>5, <1>6

LEMMA NextSum ==
    ASSUME NEW n \in Nat, NEW u \in [1..n -> Nat], NEW p \in 0..n, p < n
    PROVE  /\ SumOn(u, 1..p + 1) = SumOn(u, 1..p) + u[p + 1] /\ SumOn(u, 1..p + 1) \in Nat
           /\ SumOn(u, 1..n) \in Nat /\ SumOn(u, 1..p + 1) <= SumOn(u, 1..n)
  <1>1. SumOn(u, 1..p + 1) = SumOn(u, 1..p) + u[p + 1]
    BY SumsOfFirst
  <1>2. PICK q : q = p + 1
    OBVIOUS
  <1>3. q \in 0..n
    BY <1>2
  <1>4. SumOn(u, 1..q) \in Nat /\ SumOn(u, 1..n) \in Nat /\ SumOn(u, 1..q) <= SumOn(u, 1..n)
    BY <1>3, SumsOfFirst
  <1> QED BY <1>1, <1>2, <1>4

\* An archive's limits, as the walk's sums come to them.
LEMMA FitsIsWalked ==
    ASSUME NEW entries \in Seq(Entries)
    PROVE  /\ Len(entries) \in Nat
           /\ Sizes(entries) \in [1..Len(entries) -> Nat]
           /\ MediaSizes(entries) \in [1..Len(entries) -> Nat]
           /\ Media(entries) \in [1..Len(entries) -> Nat]
           /\ ArchiveFits(entries) <=>
                /\ Len(entries) <= MaxEntries
                /\ \A i, k \in 1..Len(entries) : i # k => entries[i].name # entries[k].name
                /\ \A i \in 1..Len(entries) : entries[i].name # "outside" /\ ~entries[i].dense
                /\ SumOn(Sizes(entries), 1..Len(entries)) <= MaxUnpacked
                /\ SumOn(MediaSizes(entries), 1..Len(entries)) <= MaxMedia
                /\ SumOn(Media(entries), 1..Len(entries)) <= MaxMediaFiles
  <1>1. Len(entries) \in Nat /\ DOMAIN entries = 1..Len(entries)
    BY LenProperties
  <1>2. \A i \in 1..Len(entries) : entries[i].size \in Nat
    <2> SUFFICES ASSUME NEW i \in 1..Len(entries) PROVE entries[i].size \in Nat
      OBVIOUS
    <2>1. entries[i] \in Entries
      BY ElementOfSeq
    <2> QED BY <2>1 DEF Entries
  <1>3. /\ Sizes(entries) \in [1..Len(entries) -> Nat]
        /\ MediaSizes(entries) \in [1..Len(entries) -> Nat]
        /\ Media(entries) \in [1..Len(entries) -> Nat]
    BY <1>1, <1>2 DEF Sizes, MediaSizes, Media
  <1>4. SumOver(entries, LAMBDA e : e.size) = SumOn(Sizes(entries), 1..Len(entries))
    <2>1. SumOver(entries, LAMBDA e : e.size) = SumFunction(Sizes(entries))
      BY DEF SumOver, Sizes
    <2> QED BY <1>3, <2>1 DEF SumFunction, SumFunctionOnSet, SumOn
  <1>5. SumOver(entries, LAMBDA e : IF e.media THEN e.size ELSE 0)
        = SumOn(MediaSizes(entries), 1..Len(entries))
    <2>1. SumOver(entries, LAMBDA e : IF e.media THEN e.size ELSE 0) = SumFunction(MediaSizes(entries))
      BY DEF SumOver, MediaSizes
    <2> QED BY <1>3, <2>1 DEF SumFunction, SumFunctionOnSet, SumOn
  <1>6. SumOver(entries, LAMBDA e : IF e.media THEN 1 ELSE 0) = SumOn(Media(entries), 1..Len(entries))
    <2>1. SumOver(entries, LAMBDA e : IF e.media THEN 1 ELSE 0) = SumFunction(Media(entries))
      BY DEF SumOver, Media
    <2> QED BY <1>3, <2>1 DEF SumFunction, SumFunctionOnSet, SumOn
  <1> QED BY <1>1, <1>3, <1>4, <1>5, <1>6 DEF ArchiveFits

\* The walk ends at the entry, after which its counters would be `next'.
Stops(entry, walk, next) ==
    \/ entry.name = "outside" \/ entry.dense \/ entry.name \in walk.names
    \/ next.unpacked > MaxUnpacked \/ next.mediaFiles > MaxMediaFiles \/ next.media > MaxMedia

\* The step to entry `pos + 1', as the walk takes it.
LEMMA WalkOn ==
    ASSUME NEW entries \in Seq(Entries), NEW pos \in 0..Len(entries), pos < Len(entries),
           NEW walk \in Seen, Walked(walk, entries, pos), NEW entry, entry = entries[pos + 1],
           NEW next, next.names = walk.names \cup {entry.name},
           next.unpacked = walk.unpacked + entry.size,
           next.media = walk.media + (IF entry.media THEN entry.size ELSE 0),
           next.mediaFiles = walk.mediaFiles + (IF entry.media THEN 1 ELSE 0)
    PROVE  /\ entry \in Entries
           /\ ~Stops(entry, walk, next) => Walked(next, entries, pos + 1)
           /\ Stops(entry, walk, next) => ~ArchiveFits(entries)
  <1> DEFINE all == 1..Len(entries)
  <1>1. Len(entries) \in Nat /\ DOMAIN entries = all /\ pos + 1 \in all /\ entry \in Entries
    BY LenProperties, ElementOfSeq
  <1>2. /\ Sizes(entries)[pos + 1] = entry.size
        /\ MediaSizes(entries)[pos + 1] = IF entry.media THEN entry.size ELSE 0
        /\ Media(entries)[pos + 1] = IF entry.media THEN 1 ELSE 0
    BY <1>1 DEF Sizes, MediaSizes, Media
  <1>3. /\ next.unpacked = SumOn(Sizes(entries), 1..pos + 1)
        /\ next.unpacked \in Nat /\ SumOn(Sizes(entries), all) \in Nat
        /\ next.unpacked <= SumOn(Sizes(entries), all)
    <2>1. Sizes(entries) \in [1..Len(entries) -> Nat]
      BY FitsIsWalked
    <2>2. walk.unpacked = SumOn(Sizes(entries), 1..pos)
      BY DEF Walked
    <2>3. next.unpacked = walk.unpacked + Sizes(entries)[pos + 1]
      BY <1>2
    <2>4. /\ SumOn(Sizes(entries), 1..pos + 1) = SumOn(Sizes(entries), 1..pos) + Sizes(entries)[pos + 1]
          /\ SumOn(Sizes(entries), 1..pos + 1) \in Nat /\ SumOn(Sizes(entries), all) \in Nat
          /\ SumOn(Sizes(entries), 1..pos + 1) <= SumOn(Sizes(entries), all)
      BY <1>1, <2>1, NextSum, Zenon
    <2> QED BY <2>2, <2>3, <2>4, Zenon
  <1>4. /\ next.media = SumOn(MediaSizes(entries), 1..pos + 1)
        /\ next.media \in Nat /\ SumOn(MediaSizes(entries), all) \in Nat
        /\ next.media <= SumOn(MediaSizes(entries), all)
    <2>1. MediaSizes(entries) \in [1..Len(entries) -> Nat]
      BY FitsIsWalked
    <2>2. walk.media = SumOn(MediaSizes(entries), 1..pos)
      BY DEF Walked
    <2>3. next.media = walk.media + MediaSizes(entries)[pos + 1]
      BY <1>2
    <2>4. /\ SumOn(MediaSizes(entries), 1..pos + 1) = SumOn(MediaSizes(entries), 1..pos) + MediaSizes(entries)[pos + 1]
          /\ SumOn(MediaSizes(entries), 1..pos + 1) \in Nat /\ SumOn(MediaSizes(entries), all) \in Nat
          /\ SumOn(MediaSizes(entries), 1..pos + 1) <= SumOn(MediaSizes(entries), all)
      BY <1>1, <2>1, NextSum, Zenon
    <2> QED BY <2>2, <2>3, <2>4, Zenon
  <1>5. /\ next.mediaFiles = SumOn(Media(entries), 1..pos + 1)
        /\ next.mediaFiles \in Nat /\ SumOn(Media(entries), all) \in Nat
        /\ next.mediaFiles <= SumOn(Media(entries), all)
    <2>1. Media(entries) \in [1..Len(entries) -> Nat]
      BY FitsIsWalked
    <2>2. walk.mediaFiles = SumOn(Media(entries), 1..pos)
      BY DEF Walked
    <2>3. next.mediaFiles = walk.mediaFiles + Media(entries)[pos + 1]
      BY <1>2
    <2>4. /\ SumOn(Media(entries), 1..pos + 1) = SumOn(Media(entries), 1..pos) + Media(entries)[pos + 1]
          /\ SumOn(Media(entries), 1..pos + 1) \in Nat /\ SumOn(Media(entries), all) \in Nat
          /\ SumOn(Media(entries), 1..pos + 1) <= SumOn(Media(entries), all)
      BY <1>1, <2>1, NextSum, Zenon
    <2> QED BY <2>2, <2>3, <2>4, Zenon
  <1>6. \A i \in 1..pos + 1 : i \in 1..pos \/ i = pos + 1
    OBVIOUS
  <1>7. next.names = {entries[i].name : i \in 1..pos + 1}
    BY <1>6 DEF Walked
  <1>8. {MaxUnpacked, MaxMedia, MaxMediaFiles} \subseteq Nat
    BY UploadAssumption
  <1>9. ASSUME entry.name # "outside", ~entry.dense, entry.name \notin walk.names,
               ~(next.unpacked > MaxUnpacked), ~(next.mediaFiles > MaxMediaFiles),
               ~(next.media > MaxMedia)
        PROVE  Walked(next, entries, pos + 1)
    <2>1. \A i, k \in 1..pos + 1 : i # k => entries[i].name # entries[k].name
      BY <1>6, <1>9 DEF Walked
    <2>2. \A i \in 1..pos + 1 : entries[i].name # "outside" /\ ~entries[i].dense
      BY <1>6, <1>9 DEF Walked
    <2>3. next.unpacked <= MaxUnpacked /\ next.media <= MaxMedia /\ next.mediaFiles <= MaxMediaFiles
      BY <1>3, <1>4, <1>5, <1>8, <1>9
    <2> QED BY <1>3, <1>4, <1>5, <1>7, <2>1, <2>2, <2>3 DEF Walked
  <1>10. ASSUME ArchiveFits(entries)
         PROVE  /\ entry.name # "outside" /\ ~entry.dense /\ entry.name \notin walk.names
                /\ ~(next.unpacked > MaxUnpacked) /\ ~(next.mediaFiles > MaxMediaFiles)
                /\ ~(next.media > MaxMedia)
    <2>1. entry.name # "outside" /\ ~entry.dense
      BY <1>1, <1>10, FitsIsWalked
    <2>2. entry.name \notin walk.names
      <3>1. \A i \in 1..pos : i \in all /\ i # pos + 1
        BY <1>1
      <3>2. \A i, k \in all : i # k => entries[i].name # entries[k].name
        BY <1>10, FitsIsWalked
      <3>3. walk.names = {entries[i].name : i \in 1..pos}
        BY DEF Walked
      <3>4. \A i \in 1..pos : entries[i].name # entries[pos + 1].name
        BY <1>1, <3>1, <3>2
      <3> QED BY <3>3, <3>4
    <2>3. /\ SumOn(Sizes(entries), all) <= MaxUnpacked
          /\ SumOn(MediaSizes(entries), all) <= MaxMedia
          /\ SumOn(Media(entries), all) <= MaxMediaFiles
      BY <1>10, FitsIsWalked
    <2> QED BY <1>3, <1>4, <1>5, <1>8, <2>1, <2>2, <2>3
  <1> QED BY <1>1, <1>9, <1>10 DEF Stops

\* A step that leaves the walk alone and does not begin one.
LEMMA WalkStays ==
    ASSUME UploadWalked, UNCHANGED <<uploads, seen>>, at' # "entries" \/ UNCHANGED <<at, input>>
    PROVE  UploadWalked'
  <1>1. ArchiveFits(uploads[seen.file].entries)' <=> ArchiveFits(uploads[seen.file].entries)
    BY DEF ArchiveFits, SumOver
  <1>2. ASSUME Walked(seen, uploads[seen.file].entries, seen.pos)
        PROVE  Walked(seen, uploads[seen.file].entries, seen.pos)'
    BY <1>2 DEF Walked, Sizes, MediaSizes, Media
  <1>3. at' = "entries" => seen'.file = Len(input') /\ ~seen'.refused /\ Len(File'.entries) <= MaxEntries
    BY DEF UploadWalked, File
  <1> QED BY <1>1, <1>2, <1>3 DEF UploadWalked

LEMMA WalkBegins ==
    ASSUME UploadInv, CheckContent
    PROVE  UploadWalked'
  <1> USE DEF UploadInv
  <1>1. /\ at = "content" /\ seen' = NothingSeen(Len(input)) /\ uploads' = uploads
        /\ at' = "entries" => input' = input /\ ~(Len(File.entries) > MaxEntries)
    BY DEF CheckContent, Refuse
  <1>2. /\ Len(input) \in 1..Len(uploads) /\ Len(uploads) \in Nat /\ Len(input) # 0
    BY <1>1, UploadsAreSequences DEF UploadPlaced, Handling
  <1>3. /\ seen' \in Seen /\ seen'.file = Len(input) /\ seen'.pos = 0 /\ ~seen'.refused
    BY <1>1, <1>2 DEF NothingSeen, Seen
  <1>4. PICK entries : entries = uploads[Len(input)].entries
    OBVIOUS
  <1>5. entries \in Seq(Entries) /\ Len(entries) \in Nat
    BY <1>2, <1>4, UploadFacts
  <1>6. Walked(seen', entries, 0)
    <2>1. /\ SumOn(Sizes(entries), 1..0) = 0 /\ SumOn(MediaSizes(entries), 1..0) = 0
          /\ SumOn(Media(entries), 1..0) = 0
      <3>1. /\ Sizes(entries) \in [1..Len(entries) -> Nat]
            /\ MediaSizes(entries) \in [1..Len(entries) -> Nat]
            /\ Media(entries) \in [1..Len(entries) -> Nat]
        BY <1>5, FitsIsWalked
      <3>2. SumOn(Sizes(entries), {}) = 0
        BY <3>1, SumOfNothing
      <3>3. SumOn(MediaSizes(entries), {}) = 0
        BY <3>1, SumOfNothing
      <3>4. SumOn(Media(entries), {}) = 0
        BY <3>1, SumOfNothing
      <3>5. 1..0 = {}
        OBVIOUS
      <3> QED BY <3>2, <3>3, <3>4, <3>5
    <2>2. 1..0 = {}
      OBVIOUS
    <2>3. {MaxUnpacked, MaxMedia, MaxMediaFiles} \subseteq Nat
      BY UploadAssumption
    <2>4. /\ seen'.names = {} /\ seen'.unpacked = 0 /\ seen'.media = 0 /\ seen'.mediaFiles = 0
      BY <1>1 DEF NothingSeen
    <2> QED BY <2>1, <2>2, <2>3, <2>4 DEF Walked
  <1>7. seen'.pos \in 0..Len(entries) /\ uploads'[seen'.file].entries = entries
    BY <1>1, <1>3, <1>4, <1>5
  <1>8. seen'.file \in 0..Len(uploads')
    BY <1>1, <1>2, <1>3
  <1>9. at' = "entries" => /\ seen'.file = Len(input') /\ Len(File'.entries) <= MaxEntries
    <2> SUFFICES ASSUME at' = "entries"
                 PROVE  seen'.file = Len(input') /\ Len(File'.entries) <= MaxEntries
      OBVIOUS
    <2>1. File' = File /\ Len(File.entries) = Len(entries) /\ MaxEntries \in Nat
      BY <1>1, <1>4, UploadAssumption DEF File
    <2> QED BY <1>1, <1>3, <1>5, <2>1
  <1>10. Walked(seen, uploads[seen.file].entries, seen.pos)'
    BY <1>3, <1>6, <1>7 DEF Walked, Sizes, MediaSizes, Media
  <1> QED BY <1>3, <1>7, <1>8, <1>9, <1>10 DEF UploadWalked

LEMMA WalkGoesOn ==
    ASSUME UploadInv, CheckEntry
    PROVE  UploadWalked'
  <1> USE DEF UploadInv
  <1>1. at = "entries" /\ uploads' = uploads /\ seen.pos < Len(File.entries)
    BY DEF CheckEntry
  <1>2. Len(input) \in 1..Len(uploads) /\ Len(uploads) \in Nat /\ Len(input) # 0
    BY <1>1, UploadsAreSequences DEF UploadPlaced, Handling
  <1>3. PICK entries : entries = File.entries
    OBVIOUS
  <1>4. entries \in Seq(Entries) /\ Len(entries) \in Nat
    BY <1>2, <1>3, UploadFacts DEF File
  <1>5. /\ seen \in Seen /\ seen.file = Len(input) /\ ~seen.refused
        /\ entries = uploads[seen.file].entries /\ Len(entries) <= MaxEntries
    BY <1>1, <1>3 DEF UploadWalked, File
  <1>6. seen.pos \in 0..Len(entries) /\ Walked(seen, entries, seen.pos) /\ seen.file # 0
    BY <1>2, <1>5 DEF UploadWalked
  <1>7. PICK entry : entry = entries[seen.pos + 1]
    OBVIOUS
  <1>8. PICK next :
          /\ next = [seen EXCEPT !.pos = @ + 1, !.names = Noted(@, entry),
                                 !.unpacked = seen.unpacked + entry.size,
                                 !.media = seen.media + (IF entry.media THEN entry.size ELSE 0),
                                 !.mediaFiles = seen.mediaFiles + (IF entry.media THEN 1 ELSE 0)]
    OBVIOUS
  <1>9. /\ next.names = seen.names \cup {entry.name} /\ next.unpacked = seen.unpacked + entry.size
        /\ next.media = seen.media + (IF entry.media THEN entry.size ELSE 0)
        /\ next.mediaFiles = seen.mediaFiles + (IF entry.media THEN 1 ELSE 0)
        /\ next.pos = seen.pos + 1 /\ next.file = seen.file
    BY <1>5, <1>8 DEF Seen, Noted
  <1>10. entry \in Entries /\ seen.pos < Len(entries)
    <2>1. seen.pos < Len(entries) /\ seen.pos + 1 \in 1..Len(entries)
      BY <1>1, <1>3, <1>4, <1>6
    <2> QED BY <1>4, <1>7, <2>1, ElementOfSeq
  <1>11. PICK wrong \in BOOLEAN : wrong <=> Stops(entry, seen, next)
    OBVIOUS
  <1>12. /\ wrong => ~ArchiveFits(entries)
         /\ ~wrong => Walked(next, entries, seen.pos + 1)
    <2>1. /\ Stops(entry, seen, next) => ~ArchiveFits(entries)
          /\ ~Stops(entry, seen, next) => Walked(next, entries, seen.pos + 1)
      BY <1>4, <1>5, <1>6, <1>7, <1>9, <1>10, WalkOn
    <2> QED BY <1>11, <2>1
  <1>13. /\ seen' = [next EXCEPT !.refused = wrong]
         /\ wrong => at' = "refused"
         /\ ~wrong => at' = at /\ input' = input
    <2>1. /\ wrong => at' = "refused"
          /\ ~wrong => at' = at /\ input' = input
      BY <1>3, <1>7, <1>9, <1>11 DEF CheckEntry, Refuse, Stops
    <2>2. seen' = [seen EXCEPT !.pos = @ + 1, !.names = Noted(@, entry),
                               !.unpacked = seen.unpacked + entry.size,
                               !.media = seen.media + (IF entry.media THEN entry.size ELSE 0),
                               !.mediaFiles = seen.mediaFiles + (IF entry.media THEN 1 ELSE 0),
                               !.refused = wrong]
      BY <1>3, <1>7, <1>9, <1>11 DEF CheckEntry, Stops
    <2>3. seen' = [next EXCEPT !.refused = wrong]
      BY <1>8, <2>2
    <2> QED BY <2>1, <2>3
  <1>14. seen' \in Seen /\ seen'.file = Len(input) /\ seen'.pos = seen.pos + 1 /\ seen'.refused = wrong
    <2>1. next \in Seen
      <3>1. /\ seen.names \cup {entry.name} \in SUBSET STRING /\ seen.unpacked + entry.size \in Nat
            /\ seen.media + (IF entry.media THEN entry.size ELSE 0) \in Nat
            /\ seen.mediaFiles + (IF entry.media THEN 1 ELSE 0) \in Nat /\ seen.pos + 1 \in Nat
        BY <1>5, <1>10, SMTT(30) DEF Seen, Entries
      <3> QED BY <1>5, <1>8, <3>1 DEF Seen, Noted
    <2> QED BY <1>5, <1>9, <1>13, <2>1 DEF Seen
  <1>15. ~wrong => Walked(seen', entries, seen.pos + 1)
    BY <1>8, <1>9, <1>12, <1>13 DEF Walked, Seen
  <1>16. seen.pos + 1 \in 0..Len(entries)
    BY <1>1, <1>3, <1>4, <1>6
  <1>17. (ArchiveFits(uploads[seen.file].entries))' <=> ArchiveFits(entries)
    BY <1>1, <1>5, <1>14 DEF ArchiveFits, SumOver
  <1>18. ~wrong => Walked(seen, uploads[seen.file].entries, seen.pos)'
    BY <1>1, <1>5, <1>14, <1>15 DEF Walked, Sizes, MediaSizes, Media
  <1>19. at' = "entries" => ~wrong /\ Len(input') = Len(input) /\ File' = File
    BY <1>1, <1>13 DEF File
  <1> QED BY <1>1, <1>2, <1>3, <1>5, <1>12, <1>14, <1>16, <1>17, <1>18, <1>19 DEF UploadWalked

LEMMA WalkedStep ==
    ASSUME UploadInv, [UploadNext]_uploadVars
    PROVE  UploadWalked'
  <1>1. CASE CheckContent
    BY <1>1, WalkBegins
  <1>2. CASE CheckEntry
    BY <1>2, WalkGoesOn
  <1>3. CASE UNCHANGED <<uploads, seen>> /\ at' # "entries"
    BY <1>3, WalkStays DEF UploadInv
  <1>4. CASE UNCHANGED uploadVars
    BY <1>4, WalkStays DEF uploadVars, UploadInv
  <1>5. \/ CheckContent \/ CheckEntry
        \/ UNCHANGED <<uploads, seen>> /\ at' # "entries"
        \/ UNCHANGED uploadVars
    BY DEF UploadNext, StartRequest, OpenFile, SaveChunk, EndFile, CheckStructure, Scan, Refuse
  <1> QED BY <1>1, <1>2, <1>3, <1>4, <1>5

LEMMA UploadBegins ==
    ASSUME UploadInit
    PROVE  UploadInv
  <1>1. Len(uploads) \in Nat /\ <<>> \in Seq(Nat) /\ Len(<<>>) = 0
    BY UploadAssumption, LenProperties DEF UploadInit
  <1>2. UploadPlaced
    BY <1>1 DEF UploadInit, UploadPlaced, Handling
  <1>3. UploadsPassed /\ UploadsScanned
    BY <1>1 DEF UploadInit, UploadsPassed, UploadsScanned, Handling
  <1>4. UploadsWithinLimits
    BY NothingTaken DEF UploadInit, UploadsWithinLimits, Total
  <1>5. UploadWalked
    BY <1>1 DEF UploadInit, UploadWalked, NothingSeen, Seen
  <1> QED BY <1>2, <1>3, <1>4, <1>5 DEF UploadInv

\* What is known of every request whose files are taken in.
THEOREM UploadInvHolds == UploadSpec => []UploadInv
  <1>1. UploadInit => UploadInv
    BY UploadBegins
  <1>2. UploadInv /\ [UploadNext]_uploadVars => UploadInv'
    <2> SUFFICES ASSUME UploadInv, [UploadNext]_uploadVars PROVE UploadInv'
      OBVIOUS
    <2>1. UploadPlaced'
      BY PlacedStep DEF UploadInv
    <2>2. UploadsPassed' /\ UploadsScanned'
      BY PassedStep, ScannedStep DEF UploadInv
    <2>3. UploadsWithinLimits'
      BY LimitsStep
    <2>4. UploadWalked'
      BY WalkedStep
    <2> QED BY <2>1, <2>2, <2>3, <2>4 DEF UploadInv
  <1> QED BY <1>1, <1>2, PTL DEF UploadSpec

\* Whatever the limits and the files: no file of a request is written beyond its
\* limit nor all of them beyond the job's, and a request that is accepted has, of
\* all its files, none that is encrypted, has macros or scripts or is of another
\* kind than the operation's.  Each was sent to the scanner: none is accepted that it
\* found something in, none without a reply if a scanner is required.  (A reply without
\* a word on the file counts as one: security.py refuses the status FOUND only.)
THEOREM UploadsPassTheirChecks == UploadSpec => []UploadsAreChecked
  <1>1. ASSUME UploadInv PROVE UploadsAreChecked
    <2>1. ASSUME at = "accepted"
          PROVE  Len(replies) = Len(uploads) /\ \A i \in DOMAIN uploads : Passed(i)
      BY <1>1, <2>1, UploadsAreSequences DEF UploadInv, UploadPlaced, UploadsPassed, UploadsScanned
    <2>2. AcceptedUploadsAreSound
      BY <2>1 DEF AcceptedUploadsAreSound, Passed, Clean, Bad
    <2> QED BY <1>1, <2>2 DEF UploadInv, UploadsAreChecked
  <1> QED BY <1>1, UploadInvHolds, PTL

\* Whatever the archive, and in whatever order it lists its entries: the walk
\* over them, which stops at the first that passes a limit, refuses only what as
\* a whole is over the limits, and comes to its end only with what is within.
THEOREM WalkMatches == UploadSpec => []WalkMatchesArchive
  <1>1. ASSUME UploadInv PROVE WalkMatchesArchive
    <2> SUFFICES ASSUME seen.file # 0, at = "entries", seen.pos = Len(uploads[seen.file].entries)
                 PROVE  ArchiveFits(uploads[seen.file].entries)
      BY <1>1 DEF UploadInv, UploadWalked, WalkMatchesArchive
    <2>1. PICK entries : entries = uploads[seen.file].entries
      OBVIOUS
    <2>2. /\ seen.file = Len(input) /\ ~seen.refused /\ Len(entries) <= MaxEntries
          /\ Walked(seen, entries, Len(entries))
      BY <1>1, <2>1 DEF UploadInv, UploadWalked, File
    <2>3. entries \in Seq(Entries)
      <3>1. Len(input) \in 1..Len(uploads)
        BY <1>1 DEF UploadInv, UploadPlaced, Handling
      <3> QED BY <1>1, <2>1, <2>2, <3>1, UploadFacts DEF UploadInv
    <2>4. /\ \A i, k \in 1..Len(entries) : i # k => entries[i].name # entries[k].name
          /\ \A i \in 1..Len(entries) : entries[i].name # "outside" /\ ~entries[i].dense
          /\ SumOn(Sizes(entries), 1..Len(entries)) <= MaxUnpacked
          /\ SumOn(MediaSizes(entries), 1..Len(entries)) <= MaxMedia
          /\ SumOn(Media(entries), 1..Len(entries)) <= MaxMediaFiles
      BY <2>2 DEF Walked
    <2>5. ArchiveFits(entries)
      BY <2>2, <2>3, <2>4, FitsIsWalked
    <2> QED BY <2>1, <2>5
  <1> QED BY <1>1, UploadInvHolds, PTL
===============================================================================
