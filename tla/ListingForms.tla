----------------------------- MODULE ListingForms -----------------------------
(***************************************************************************)
(* How a listing is written: the wizard of /publier and the page that      *)
(* edits a listing, in one tab of an owner.  Both walk through steps, each *)
(* checked before the next; the wizard keeps a draft in the browser.       *)
(* Their step of the photos holds a zone of uploads that is dropped when   *)
(* the step is left.  Requests may be refused, their answers lost, and the *)
(* tab left meanwhile.  The API creates the row, or reads it, checks it    *)
(* against the changes and writes the changes only.                        *)
(***************************************************************************)
EXTENDS Naturals, Sequences, FiniteSets, SequencesExt, Orders

CONSTANTS Photos,      \* the files the owner may choose
          Videos,      \* those of them that are not cropped
          Nights,      \* numbers of nights
          MaxPosts,    \* how often the wizard is submitted
          MaxForms,    \* how many fillings of the wizard are begun
          MaxSaves,    \* changes sent to the API
          MaxMishaps   \* uploads and requests that fail, answers that are lost

ASSUME FormAssumption == Videos \subseteq Photos /\ Nights \subseteq Nat \ {0}

VARIABLES form,     \* "away", "wizard", "success" or "edit"
          step,     \* of the wizard (0..5) or of the edit page (0..4)
          values,   \* the fields: [filling, filled, min, max, images], with basis, wanted and lost
          zone,     \* the items of the step of the photos: [photo, status]
          crops,    \* the photos to be cropped, in order
          tasks,    \* what the zone is doing: [pressed, sends, adjusts], with stuck
          other,    \* the edit page of another tab of the owner, or NoForm
          draft,    \* what the browser keeps of the wizard
          posts,    \* requests to create a listing
          rows,     \* the listings: [filling, min, max, images], with writes, wanted and lost
          saves,    \* requests to change the first listing
          begun, sent, saved, mishaps,   \* counters
          again,    \* history: fillings submitted a second time by the owner
          overlap   \* history: two changes of the row have overlapped in the API

formVars == <<form, step, values, zone, crops, tasks, other, draft, posts, rows, saves, begun, sent, saved, mishaps,
              again, overlap>>
server   == <<other, posts, rows, saves, sent, saved, again, overlap>>

NotGiven    == 0     \* a number that was not given
NoDraft == <<>>
NoForm  == <<>>
Required == {"basics", "place", "prices"}

\* wanted and lost are history.  wanted: the photos chosen that the owner has neither removed, nor
\* been shown as failed, nor left while they were under way.  lost: those of them that are not
\* kept, for one of three reasons -- the zone has lost sight of them (stuck), the wizard was left
\* before its next step saved them (LeavePage), a form filled from an older row was written over
\* them (UpdateWrites).  basis: how often the row had been written when the form was filled.
Blank(n) == [filling |-> n, filled |-> {}, min |-> NotGiven, max |-> NotGiven, images |-> <<>>,
             basis |-> 0, wanted |-> {}, lost |-> {}]
\* pressed: how often each crop was confirmed whose image is not rendered yet; sends: uploads
\* under way; adjusts: photos cropped again, under way; stuck (history): photos that were passed
\* over in the queue, or whose upload had no token.
NoTasks == [pressed |-> [p \in Photos |-> 0], sends |-> [p \in Photos |-> 0], adjusts |-> {}, stuck |-> {}]

Mishap == mishaps < MaxMishaps /\ mishaps' = mishaps + 1
Smooth == UNCHANGED mishaps

----------------------------------------------------------------------------
\* The schema, and the fields each step checks.

NightsRange(min, max) == min # NotGiven /\ max # NotGiven => min <= max
StepFields(page, s) ==
  CASE page = "wizard" -> CASE s = 0 -> {"basics"} [] s = 2 -> {"place"} [] s = 3 -> {"prices", "nights"}
                            [] s = 4 -> {"images"} [] OTHER -> {}
    [] OTHER           -> CASE s = 0 -> {"basics", "prices", "nights"} [] s = 1 -> {"place"}
                            [] s = 3 -> {"images"} [] OTHER -> {}
Passes(v, field) == CASE field = "nights" -> NightsRange(v.min, v.max)
                      [] field = "images" -> v.images # <<>>
                      [] OTHER            -> field \in v.filled
Schema(v) == \A field \in Required \cup {"nights", "images"} : Passes(v, field)

Editing   == form \in {"wizard", "edit"}
Final     == IF form = "wizard" THEN 5 ELSE 4
PhotoStep == IF form = "wizard" THEN 4 ELSE 3
Ready(z)       == {i \in DOMAIN z : z[i].status = "done"}
ReadyPhotos(z) == [j \in DOMAIN Those(z, Ready(z)) |-> Those(z, Ready(z))[j].photo]
PhotosAt(z, K) == {z[i].photo : i \in K}
Unsettled(z)   == {i \in DOMAIN z : z[i].status = "uploading"}
Spinning       == PhotosAt(zone, Unsettled(zone))
InHand(c, w)   == ToSet(c) \cup {p \in Photos : w.pressed[p] > 0 \/ w.sends[p] > 0} \cup w.adjusts
UnderWay       == Spinning \cap InHand(crops, tasks)

\* The zone starts from the photos of the form, and reports those that are done.
EmptyZone(images) == <<>>                        \* mutant: the zone does not take the images it is given
ZoneOf(images) == [i \in DOMAIN images |-> [photo |-> images[i], status |-> "done"]]

\* Another step comes on the screen.
ShowStep(s, v) ==
  /\ step' = s /\ crops' = <<>> /\ tasks' = NoTasks
  /\ IF s = PhotoStep
       THEN zone' = ZoneOf(v.images) /\ values' = [v EXCEPT !.images = ReadyPhotos(ZoneOf(v.images))]
       ELSE zone' = <<>> /\ values' = v
LeaveZone(v) == [v EXCEPT !.wanted = @ \ UnderWay, !.lost = @ \cup (Spinning \cap tasks.stuck)]
NoZone   == zone' = <<>> /\ crops' = <<>> /\ tasks' = NoTasks

----------------------------------------------------------------------------
\* The steps.

OpenWizard ==
  /\ form = "away" /\ form' = "wizard" /\ step' = 0 /\ NoZone
  /\ IF draft # NoDraft THEN values' = draft /\ UNCHANGED begun
     ELSE begun < MaxForms /\ begun' = begun + 1 /\ values' = Blank(begun + 1)
  /\ UNCHANGED <<draft, server, mishaps>>

\* A field is given, or blanked.
Fill(part, page, s) ==
  /\ form = page /\ step = s
  /\ \/ values' = [values EXCEPT !.filled = @ \cup {part}]
     \/ values' = [values EXCEPT !.filled = @ \ {part}]
  /\ UNCHANGED <<form, step, zone, crops, tasks, draft, server, begun, mishaps>>
FillBasics == Fill("basics", "wizard", 0)
FillPlace  == Fill("place", "wizard", 2)
FillPrices == Fill("prices", "wizard", 3)
FillNights ==
  /\ form = "wizard" /\ step = 3
  /\ \E min, max \in Nights \cup {NotGiven} : values' = [values EXCEPT !.min = min, !.max = max]
  /\ UNCHANGED <<form, step, zone, crops, tasks, draft, server, begun, mishaps>>
EditFields == Fill("basics", "edit", 0) \/ Fill("prices", "edit", 0)
EditPlace  == Fill("place", "edit", 1)
EditNights ==
  /\ form = "edit" /\ step = 0
  /\ \E min, max \in Nights \cup {NotGiven} : values' = [values EXCEPT !.min = min, !.max = max]
  /\ UNCHANGED <<form, step, zone, crops, tasks, draft, server, begun, mishaps>>

\* To the next step, if the fields of this one are right; the wizard saves its draft.
Advance ==
  /\ form = "wizard" /\ step < Final /\ (\A f \in StepFields(form, step) : Passes(values, f))
  /\ draft' = LeaveZone(values) /\ ShowStep(step + 1, LeaveZone(values))
  /\ UNCHANGED <<form, server, begun, mishaps>>
GoNext ==
  /\ form = "edit" /\ step < Final /\ (\A f \in StepFields(form, step) : Passes(values, f))
  /\ ShowStep(step + 1, LeaveZone(values))
  /\ UNCHANGED <<form, draft, server, begun, mishaps>>
GoBack ==
  /\ Editing /\ step > 0 /\ ShowStep(step - 1, LeaveZone(values))
  /\ UNCHANGED <<form, draft, server, begun, mishaps>>

\* The page is left for another one of the application, or the tab is closed; a request goes on.
Pending(filling) == \E r \in posts : r.body.filling = filling
LeavePage ==
  /\ form # "away" /\ form' = "away" /\ step' = 0 /\ NoZone /\ values' = Blank(0)
  /\ again' = IF form = "wizard" /\ Pending(values.filling) THEN again \cup {values.filling} ELSE again
  /\ \E to \in {"left", "gone"} :
       /\ posts' = {[r EXCEPT !.from = IF @ = "gone" THEN @ ELSE to] : r \in posts}
       /\ saves' = {[r EXCEPT !.from = IF @ = "here" THEN to ELSE @] : r \in saves}
  /\ UNCHANGED <<other, rows, begun, sent, saved, mishaps, overlap>>
\* The draft stays as the last Next saved it: what was done since is lost.
LeftDraft == [draft EXCEPT !.wanted = LeaveZone(values).wanted,
                           !.lost = LeaveZone(values).lost \cup (ToSet(values.images) \ ToSet(draft.images))]
Leave == LeavePage /\ draft' = IF form = "wizard" /\ draft # NoDraft THEN LeftDraft ELSE draft
\* The session ends in front of the wizard, which then forgets its draft; other pages do not.
SessionEnds == form \in {"wizard", "success"} /\ LeavePage /\ draft' = NoDraft

----------------------------------------------------------------------------
\* The zone of the photos.

InZone == Editing /\ step = PhotoStep
Items(z) == zone' = z /\ values' = [values EXCEPT !.images = ReadyPhotos(z)]
ItemsIn(p, status) == [i \in DOMAIN zone |-> IF zone[i].photo = p THEN [zone[i] EXCEPT !.status = status] ELSE zone[i]]
Has(p, status)    == \E i \in DOMAIN zone : zone[i].photo = p /\ zone[i].status = status
ZoneOnly == UNCHANGED <<form, step, draft, server, begun>>

\* uploadFiles: a photo waits to be cropped, a video is sent at once.
ChooseFile(p) ==
  /\ InZone /\ (\A i \in DOMAIN zone : zone[i].photo # p) /\ ~Contains(crops, p) /\ tasks.pressed[p] = 0
  /\ zone' = Append(zone, [photo |-> p, status |-> "uploading"])
  /\ values' = [values EXCEPT !.wanted = @ \cup {p}, !.lost = @ \ {p}]
  /\ IF p \in Videos THEN tasks' = [tasks EXCEPT !.sends[p] = 1] /\ UNCHANGED crops
     ELSE crops' = Append(crops, p) /\ UNCHANGED tasks
  /\ ZoneOnly /\ Smooth

\* The item goes; answers to what was sent for it find nothing.
Removed(p) == Those(zone, {i \in DOMAIN zone : zone[i].photo # p})
TakeOut(p) == zone' = Removed(p) /\ values' = [values EXCEPT !.images = ReadyPhotos(Removed(p)), !.wanted = @ \ {p}]
Forget(w, p) == [w EXCEPT !.sends[p] = 0, !.adjusts = @ \ {p}, !.stuck = @ \ {p}]
RemoveItem(p) ==
  /\ InZone /\ (\E i \in DOMAIN zone : zone[i].photo = p) /\ TakeOut(p) /\ tasks' = Forget(tasks, p)
  /\ UNCHANGED crops /\ ZoneOnly /\ Smooth

\* handleConfirm of the cropper renders the photo (toBlob) and leaves its button as it is.
ConfirmCrop ==
  /\ InZone /\ crops # <<>> /\ tasks' = [tasks EXCEPT !.pressed[Head(crops)] = @ + 1]
  /\ UNCHANGED <<zone, values, crops>> /\ ZoneOnly /\ Smooth
\* The callback has the photo of its press, but takes whichever is now the first out of the queue:
\* after a second press, or a cancel, that is the next one, which nobody will send.
Shifted(c) == IF c = <<>> THEN <<>> ELSE Tail(c)
Rendered(p) ==
  LET passed == {q \in Photos : crops # <<>> /\ q = Head(crops) /\ q # p /\ tasks.pressed[q] = 0} IN
  [tasks EXCEPT !.pressed[p] = @ - 1, !.stuck = @ \cup passed]
HasItem(p) == \E i \in DOMAIN zone : zone[i].photo = p
CropRendered(p) ==
  /\ tasks.pressed[p] > 0 /\ crops' = Shifted(crops) /\ UNCHANGED <<zone, values>>
  /\ tasks' = IF HasItem(p) THEN [Rendered(p) EXCEPT !.sends[p] = @ + 1] ELSE Rendered(p)
  /\ ZoneOnly /\ Smooth
\* No image comes out: as a cancel, with the photo of the press.
CropFails(p) ==
  /\ tasks.pressed[p] > 0 /\ crops' = Shifted(crops) /\ TakeOut(p) /\ tasks' = Forget(Rendered(p), p)
  /\ ZoneOnly /\ Mishap
\* Cancelled, or a file that is no image.
CropCancel ==
  /\ InZone /\ crops # <<>> /\ crops' = Tail(crops)
  /\ TakeOut(Head(crops)) /\ tasks' = Forget(tasks, Head(crops))
  /\ ZoneOnly /\ Smooth

\* The answer of /upload; a file that the API or the host refuses is shown as failed.  A token that
\* is refused (the await is outside the try) leaves the photo spinning.
SentBack(p) == [tasks EXCEPT !.sends[p] = @ - 1]
UploadSettles(p) ==
  /\ tasks.sends[p] > 0 /\ Items(ItemsIn(p, "done")) /\ tasks' = SentBack(p)
  /\ UNCHANGED crops /\ ZoneOnly /\ Smooth
UploadFails(p) ==
  /\ tasks.sends[p] > 0 /\ Mishap /\ UNCHANGED crops /\ ZoneOnly
  /\ \/ zone' = ItemsIn(p, "error") /\ tasks' = SentBack(p)
        /\ values' = [values EXCEPT !.images = ReadyPhotos(ItemsIn(p, "error")), !.wanted = @ \ {p}]
     \/ UNCHANGED <<zone, values>> /\ tasks' = [SentBack(p) EXCEPT !.stuck = @ \cup {p}]

\* A photo that is there is cropped again: meanwhile it is not, and a failure brings it back.
AdjustConfirm(p) ==
  /\ Has(p, "done") /\ p \notin Videos /\ Items(ItemsIn(p, "uploading"))
  /\ tasks' = [tasks EXCEPT !.adjusts = @ \cup {p}] /\ UNCHANGED crops /\ ZoneOnly /\ Smooth
AdjustSettles(p) ==
  /\ p \in tasks.adjusts /\ UNCHANGED crops /\ ZoneOnly
  /\ \/ Items(ItemsIn(p, "done")) /\ tasks' = [tasks EXCEPT !.adjusts = @ \ {p}] /\ (Smooth \/ Mishap)
     \/ UNCHANGED <<zone, values>> /\ tasks' = [tasks EXCEPT !.adjusts = @ \ {p}, !.stuck = @ \cup {p}] /\ Mishap

SetPrimary(p) ==
  /\ Has(p, "done") /\ Items(Those(zone, {i \in DOMAIN zone : zone[i].photo = p}) \o Removed(p))
  /\ UNCHANGED <<crops, tasks>> /\ ZoneOnly /\ Smooth

----------------------------------------------------------------------------
\* A listing is created.

SendForm ==
  /\ Schema(values) /\ sent < MaxPosts /\ sent' = sent + 1
  /\ posts' = posts \cup {[n |-> sent + 1, at |-> "sent", from |-> "here", body |-> values]}
  /\ again' = IF Pending(values.filling) THEN again \cup {values.filling} ELSE again
  /\ UNCHANGED <<form, step, values, zone, crops, tasks, draft, other, rows, saves, begun, saved, mishaps, overlap>>

\* The two buttons of the last step are disabled while the form is submitted.
Submit == form = "wizard" /\ step = Final /\ (\A r \in posts : r.from # "here") /\ SendForm
\* Enter, in the only text field of the first step, submits the whole form.
PressEnter == form = "wizard" /\ step = 0 /\ SendForm

\* listings.create: refused without a right to publish, or for the nights.
CreateListing(r) ==
  /\ r \in posts /\ r.at = "sent"
  /\ \/ /\ NightsRange(r.body.min, r.body.max) /\ posts' = (posts \ {r}) \cup {[r EXCEPT !.at = "created"]}
        /\ rows' = Append(rows, [filling |-> r.body.filling, min |-> r.body.min, max |-> r.body.max,
                                 images |-> r.body.images, writes |-> 0, wanted |-> r.body.wanted,
                                 lost |-> r.body.lost])
        /\ Smooth
     \/ Mishap /\ posts' = (posts \ {r}) \cup {[r EXCEPT !.at = "refused"]} /\ UNCHANGED rows
  /\ UNCHANGED <<form, step, values, zone, crops, tasks, draft, other, saves, begun, sent, saved, again, overlap>>

\* What the wizard does with the answer; nothing is left to do it in a closed tab.
DraftKept == UNCHANGED draft                     \* mutant: the draft outlives its publication
DropDraft == draft' = NoDraft
Published(r) ==
  /\ r \in posts /\ r.at = "created" /\ posts' = posts \ {r}
  /\ UNCHANGED <<other, rows, saves, begun, sent, saved, overlap>>
  /\ \/ r.from = "here" /\ DropDraft /\ form' = "success" /\ step' = 0 /\ NoZone
        /\ values' = LeaveZone(values) /\ UNCHANGED again /\ Smooth
     \/ r.from = "left" /\ DropDraft /\ UNCHANGED <<form, step, values, zone, crops, tasks, again>> /\ Smooth
     \/ r.from = "gone" /\ UNCHANGED <<form, step, values, zone, crops, tasks, draft, again>> /\ Smooth
     \* The answer is lost: the form is still there, with an error.
     \/ r.from = "here" /\ Mishap /\ again' = again \cup {r.body.filling}
        /\ UNCHANGED <<form, step, values, zone, crops, tasks, draft>>
NotPublished(r) ==
  /\ r \in posts /\ r.at = "refused" /\ posts' = posts \ {r}
  /\ UNCHANGED <<form, step, values, zone, crops, tasks, draft, other, rows, saves, begun, sent, saved, mishaps, again,
                 overlap>>

\* The form comes back with the values it had.
PublishAnother ==
  /\ form = "success" /\ form' = "wizard" /\ step' = 0 /\ draft' = NoDraft
  /\ begun < MaxForms /\ begun' = begun + 1 /\ values' = [values EXCEPT !.filling = begun + 1]
  /\ UNCHANGED <<zone, crops, tasks, server, mishaps>>

----------------------------------------------------------------------------
\* A listing is changed.

Loaded(row) == [filling |-> 0, filled |-> Required, min |-> row.min, max |-> row.max, images |-> row.images,
                basis |-> row.writes, wanted |-> row.wanted, lost |-> row.lost]
OpenEdit ==
  /\ form = "away" /\ rows # <<>> /\ form' = "edit" /\ step' = 0 /\ NoZone /\ values' = Loaded(rows[1])
  /\ UNCHANGED <<draft, server, begun, mishaps>>
OpenElsewhere ==
  /\ rows # <<>> /\ other' = Loaded(rows[1])
  /\ UNCHANGED <<form, step, values, zone, crops, tasks, draft, posts, rows, saves, begun, sent, saved, mishaps, again,
                 overlap>>

ChangeRequest(from, v) == [n |-> saved + 1, at |-> "sent", from |-> from, body |-> v]
\* onSubmit: every field that has a value is sent.
Save ==
  /\ form = "edit" /\ step = Final /\ Schema(values) /\ (\A r \in saves : r.from # "here")
  /\ saved < MaxSaves /\ saved' = saved + 1 /\ saves' = saves \cup {ChangeRequest("here", values)}
  /\ UNCHANGED <<form, step, values, zone, crops, tasks, draft, other, posts, rows, begun, sent, mishaps, again, overlap>>
\* The other tab changes the nights, and sends all that it has; after an error it may do so again.
SaveElsewhere ==
  /\ other # NoForm /\ saved < MaxSaves /\ saved' = saved + 1
  /\ \E min, max \in Nights \cup {NotGiven} :
       /\ NightsRange(min, max)
       /\ saves' = saves \cup {ChangeRequest("elsewhere", [other EXCEPT !.min = min, !.max = max])}
  /\ \/ other' = NoForm /\ Smooth
     \/ UNCHANGED other /\ Mishap
  /\ UNCHANGED <<form, step, values, zone, crops, tasks, draft, posts, rows, begun, sent, again, overlap>>

Or(given, stored) == IF given # NotGiven THEN given ELSE stored
RangeOfChanges(v) == NightsRange(v.min, v.max)   \* mutant: the row is not looked at
RangeAfter(v) == NightsRange(Or(v.min, rows[1].min), Or(v.max, rows[1].max))

\* listings.update reads the row and checks what it would become; then it writes what it was given.
UpdateChecks(r) ==
  /\ r \in saves /\ r.at = "sent"
  /\ \/ RangeAfter(r.body) /\ saves' = (saves \ {r}) \cup {[r EXCEPT !.at = "checked"]} /\ Smooth
     \/ ~RangeAfter(r.body) /\ saves' = (saves \ {r}) \cup {[r EXCEPT !.at = "refused"]} /\ Smooth
     \/ Mishap /\ saves' = (saves \ {r}) \cup {[r EXCEPT !.at = "refused"]}
  /\ overlap' = (overlap \/ \E q \in saves : q.at = "checked")
  /\ UNCHANGED <<form, step, values, zone, crops, tasks, draft, other, posts, rows, begun, sent, saved, again>>
WrittenOver(r) == IF r.body.basis = rows[1].writes THEN {} ELSE ToSet(rows[1].images) \ ToSet(r.body.images)
UpdateWrites(r) ==
  /\ r \in saves /\ r.at = "checked" /\ saves' = (saves \ {r}) \cup {[r EXCEPT !.at = "written"]}
  /\ rows' = [rows EXCEPT ![1].min = Or(r.body.min, @), ![1].max = Or(r.body.max, @),
                          ![1].images = r.body.images, ![1].writes = @ + 1,
                          ![1].wanted = IF r.from = "elsewhere" THEN @ ELSE r.body.wanted \cup (@ \cap WrittenOver(r)),
                          ![1].lost = WrittenOver(r) \cup IF r.from = "elsewhere" THEN @ ELSE r.body.lost]
  /\ UNCHANGED <<form, step, values, zone, crops, tasks, draft, other, posts, begun, sent, saved, mishaps, again, overlap>>
\* The edit page goes back to the listings, or shows an error.
SaveSettles(r) ==
  /\ r \in saves /\ r.at \in {"written", "refused"} /\ saves' = saves \ {r}
  /\ \/ r.at = "written" /\ r.from = "here" /\ form' = "away" /\ step' = 0 /\ NoZone /\ values' = Blank(0) /\ Smooth
     \/ r.at = "written" /\ r.from = "here" /\ Mishap /\ UNCHANGED <<form, step, values, zone, crops, tasks>>
     \/ (r.at = "refused" \/ r.from # "here") /\ UNCHANGED <<form, step, values, zone, crops, tasks>> /\ Smooth
  /\ UNCHANGED <<draft, other, posts, rows, begun, sent, saved, again, overlap>>

----------------------------------------------------------------------------
FormInit ==
  /\ form = "away" /\ step = 0 /\ values = Blank(0) /\ zone = <<>> /\ crops = <<>> /\ tasks = NoTasks /\ draft = NoDraft
  /\ other = NoForm /\ posts = {} /\ rows = <<>> /\ saves = {} /\ begun = 0 /\ sent = 0 /\ saved = 0 /\ mishaps = 0
  /\ again = {} /\ overlap = FALSE

FormNext ==
  \/ OpenWizard \/ FillBasics \/ FillPlace \/ FillPrices \/ FillNights \/ EditFields \/ EditPlace \/ EditNights
  \/ Advance \/ GoNext \/ GoBack \/ Leave \/ SessionEnds
  \/ \E p \in Photos : ChooseFile(p) \/ RemoveItem(p) \/ UploadSettles(p) \/ UploadFails(p)
                      \/ AdjustConfirm(p) \/ AdjustSettles(p) \/ SetPrimary(p)
                      \/ CropRendered(p) \/ CropFails(p)
  \/ ConfirmCrop \/ CropCancel
  \/ Submit \/ PressEnter \/ PublishAnother
  \/ \E r \in posts : CreateListing(r) \/ Published(r) \/ NotPublished(r)
  \/ OpenEdit \/ OpenElsewhere \/ Save \/ SaveElsewhere
  \/ \E r \in saves : UpdateChecks(r) \/ UpdateWrites(r) \/ SaveSettles(r)

FormSpec == FormInit /\ [][FormNext]_formVars

----------------------------------------------------------------------------
\* One filling of the wizard makes at most one listing, whatever fails and however often the page
\* is left and its draft restored, unless the owner submits it again while a request is under way
\* (by Enter, or after leaving the page), or after an answer that was lost.
OneListingPerFilling ==
  \A i, j \in DOMAIN rows : i # j /\ rows[i].filling = rows[j].filling => rows[i].filling \in again

\* A listing has every photo its owner had chosen in the form that was submitted, but for those
\* taken out, shown as failed or still under way when their step was left (not wanted), and those
\* that are lost in one of the three ways the code knows: passed over by a crop confirmed twice or
\* cancelled late, or without a token; finished in a step of the wizard that was left, with the
\* page, before Next; written over by a form that was filled before they were saved.
PhotosKept == \A i \in DOMAIN rows : rows[i].wanted \subseteq ToSet(rows[i].images) \cup rows[i].lost

\* The shortest stay a listing accepts never exceeds the longest one, after any changes of it by
\* its owner and others, unless two of them overlapped in the API: each check is made on the row
\* as it was read, each write changes the given fields only.
NightsInOrder == ~overlap => \A i \in DOMAIN rows : NightsRange(rows[i].min, rows[i].max)

----------------------------------------------------------------------------
(***************************************************************************)
(* The invariant behind them.                                              *)
(***************************************************************************)
Values   == [filling : Nat, filled : SUBSET Required, min : Nat, max : Nat, images : Seq(Photos),
             basis : Nat, wanted : SUBSET Photos, lost : SUBSET Photos]
FormRow  == [filling : Nat, min : Nat, max : Nat, images : Seq(Photos),
             writes : Nat, wanted : SUBSET Photos, lost : SUBSET Photos]
ZoneItem == [photo : Photos, status : {"uploading", "done", "error"}]
Tasks    == [pressed : [Photos -> Nat], sends : [Photos -> Nat], adjusts : SUBSET Photos, stuck : SUBSET Photos]
Post     == [n : Nat, at : {"sent", "created", "refused"}, from : {"here", "left", "gone"}, body : Values]
Saving   == [n : Nat, at : {"sent", "checked", "written", "refused"},
             from : {"here", "left", "gone", "elsewhere"}, body : Values]

FormTypes ==
  /\ form \in {"away", "wizard", "success", "edit"} /\ step \in 0..5
  /\ values \in Values /\ draft \in Values \cup {NoDraft}
  /\ zone \in Seq(ZoneItem) /\ crops \in Seq(Photos) /\ tasks \in Tasks /\ other \in Values \cup {NoForm}
  /\ posts \subseteq Post /\ rows \in Seq(FormRow) /\ saves \subseteq Saving
  /\ begun \in Nat /\ sent \in Nat /\ saved \in Nat /\ mishaps \in Nat
  /\ again \subseteq Nat /\ overlap \in BOOLEAN

\* What a form that shows no zone, a draft or a request holds is whole; the zone shows what is
\* not there yet.
HasAll(v) == v.wanted \subseteq ToSet(v.images) \cup v.lost
PhotosFollow ==
  /\ IF InZone THEN /\ ToSet(values.images) = PhotosAt(zone, Ready(zone))
                    /\ values.wanted \subseteq ToSet(values.images) \cup Spinning \cup values.lost
                    /\ Spinning \subseteq InHand(crops, tasks) \cup tasks.stuck
     ELSE zone = <<>> /\ tasks = NoTasks /\ HasAll(values)
  /\ draft # NoDraft => HasAll(draft)
  /\ other # NoForm => HasAll(other)
  /\ \A r \in posts \cup saves : HasAll(r.body)

\* A form of another tab that was filled from the row as it is has its photos.
UpToDate(v) == v.basis <= rows[1].writes /\ (v.basis = rows[1].writes => v.images = rows[1].images)
KnownElsewhere ==
  /\ other # NoForm => rows # <<>> /\ UpToDate(other)
  /\ \A r \in saves : r.from = "elsewhere" => UpToDate(r.body)

\* A page waits for its own requests, the edit page for one.
PagesWait ==
  /\ \A r \in posts : r.from = "here" => form \in {"wizard", "success"}
  /\ \A r \in saves : r.from = "here" => form = "edit"
  /\ \A r, q \in saves : r.from = "here" /\ q.from = "here" => r = q

\* Without an overlap a change that was checked is still right when it is written.
CheckedHolds ==
  /\ form = "edit" \/ saves # {} => rows # <<>>
  /\ ~overlap =>
       /\ \A r \in saves : r.at = "checked" => RangeAfter(r.body)
       /\ \A r, q \in saves : r.at = "checked" /\ q.at = "checked" => r = q

\* A filling is published, or in a request, or in the wizard and its draft, and in two of these
\* only if it is known to have been submitted again: what is given up never comes back.
InWizard(filling)    == form = "wizard" /\ values.filling = filling
InDraft(filling)     == draft # NoDraft /\ draft.filling = filling
HasRow(filling)      == \E i \in DOMAIN rows : rows[i].filling = filling
CreatedFrom(filling) == \E r \in posts : r.body.filling = filling /\ r.at = "created"
Sendable(filling) == filling \in 1..begun /\ (HasRow(filling) => filling \in again \/ CreatedFrom(filling))
FillingsApart ==
  /\ form = "wizard" => Sendable(values.filling)
  /\ draft # NoDraft => Sendable(draft.filling)
  /\ \A i \in DOMAIN rows : rows[i].filling <= begun
  /\ \A r \in posts :
       /\ r.body.filling <= begun
       /\ InWizard(r.body.filling) /\ r.from # "here" => r.body.filling \in again
       /\ InDraft(r.body.filling) /\ ~(InWizard(r.body.filling) /\ r.from = "here") => r.body.filling \in again
       /\ HasRow(r.body.filling) => r.at = "created" \/ r.body.filling \in again
  /\ \A r, q \in posts : r.body.filling = q.body.filling => r = q \/ r.body.filling \in again

FormsInv ==
  /\ FormTypes /\ PhotosFollow /\ KnownElsewhere /\ PagesWait /\ CheckedHolds /\ FillingsApart
  /\ OneListingPerFilling /\ PhotosKept /\ NightsInOrder
=============================================================================
