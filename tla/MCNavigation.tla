----------------------------- MODULE MCNavigation -----------------------------
(***************************************************************************)
(* What the browser shows and sends.  Behaviours of one kind move a tab    *)
(* from page to page; in another kind the notices of one or two acts reach *)
(* a tab; in the others a listing is posted, its photos are chosen, or its *)
(* nights are changed.  The parts a kind is not about stay at rest.        *)
(***************************************************************************)
EXTENDS Navigation, Alerts, ListingForms

CONSTANTS clip, p1

VARIABLE regime   \* "pages", "alerts", "posting", "photos" or "changing"

Account(roles, mustChange, terms) ==
  [roles |-> roles, suspended |-> FALSE, mustChange |-> mustChange, terms |-> terms]

MCStart == {Account({"LOCATAIRE"}, FALSE, FALSE), Account({"LOCATAIRE", "BAILLEUR"}, FALSE, TRUE),
            Account({"PRO_AGENCE"}, TRUE, FALSE), Account({"AGENT_TERRAIN"}, TRUE, FALSE),
            Account({"ADMIN"}, FALSE, TRUE)}

\* Every act that starts a notice, before a review whose notices mix with its own; two acts in
\* front of an administrator's counters and a landlord's bell.
MCScripts == {[acts |-> {a, "review"}, who |-> "nobody"] : a \in Acts \ {"review"}}
             \cup {[acts |-> {"askVisit", "decline"}, who |-> "admin"],
                   [acts |-> {"request", "review"}, who |-> "landlord"]}

\* A tab is only loaded where it is watched; the administrator's is watched for its counters.
AlertBounds ==
  /\ who = "nobody" => mounts = 0
  /\ who = "admin" => /\ ~open /\ "bell" \notin live /\ \A i \in DOMAIN inbox : ~inbox[i].read
                      /\ mounts > 0 => fetch.left = {"list", "count"}
  /\ who = "landlord" /\ astray => ~open
  /\ (\A c \in Click : marking[c] # "no") => faults = 0 /\ ~fetch.on /\ wire = {}

----------------------------------------------------------------------------
\* States of the forms to start from: an empty wizard; its step of the photos, everything before
\* it being filled; a listing that is there.
Whole(images) == [Blank(1) EXCEPT !.filled = Required, !.images = images, !.wanted = ToSet(images)]
FormsRest(r) ==
  /\ posts = {} /\ saves = {} /\ zone = <<>> /\ crops = <<>> /\ tasks = NoTasks /\ other = NoForm /\ sent = 0 /\ saved = 0 /\ mishaps = 0
  /\ again = {} /\ overlap = FALSE
  /\ \/ r = "photos" /\ form = "wizard" /\ step = 4 /\ begun = 1 /\ rows = <<>>
        /\ values = Whole(<<>>) /\ draft = Whole(<<>>)
     \/ r # "photos" /\ form = "away" /\ step = 0 /\ values = Blank(0) /\ draft = NoDraft
        /\ \/ r # "changing" /\ begun = 0 /\ rows = <<>>
           \/ /\ r = "changing" /\ begun = 1
              /\ \E min \in {NotGiven, 2} :
                   rows = <<[filling |-> 1, min |-> min, max |-> NotGiven, images |-> <<p1>>,
                             writes |-> 0, wanted |-> {p1}, lost |-> {}]>>

NoNights == values.min = NotGiven /\ values.max = NotGiven
InHands == SumFunction(tasks.pressed) + SumFunction(tasks.sends)
\* Where a listing is changed it is either its nights that are, or its photos.
FormBounds ==
  /\ regime # "changing" => other = NoForm
  /\ regime = "posting" =>
       /\ saved = 0 /\ form # "edit" /\ NoNights /\ values.wanted \subseteq {clip} /\ tasks.stuck = {}
       /\ sent > 0 => tasks = NoTasks
       /\ values.filled \in CASE step < 1 -> {{}, {"basics"}, Required} [] step = 1 -> {{"basics"}, Required}
                              [] step = 2 -> {{"basics"}, {"basics", "place"}, Required}
                              [] step = 3 -> {{"basics", "place"}, Required} [] OTHER -> {Required}
  /\ regime = "photos" =>
       /\ sent <= 1 /\ saved = 0 /\ begun = 1 /\ NoNights /\ clip \notin values.wanted
       /\ form = "wizard" => values.filled = Required /\ step >= (IF sent = 0 THEN 3 ELSE Final)
       /\ InHands <= IF draft = NoDraft \/ draft.images = <<>> THEN 2 ELSE 1
       /\ \A r \in posts : r.from = "here"
       /\ rows # <<>> => form \in {"success", "away"}
  /\ regime = "changing" =>
       /\ begun = 1 /\ mishaps = 0 /\ tasks.adjusts = {} /\ (form = "edit" => values.filled = Required)
       /\ form = "edit" => {p1} \subseteq values.wanted /\ values.wanted \subseteq {p1, clip}
       /\ form = "edit" /\ saves # {} => step \in {0, Final}   \* walking through the steps does not concern the API
       /\ Cardinality({r \in saves : r.from = "elsewhere"}) <= 1 /\ \A r \in saves : r.from # "gone"
       /\ IF rows[1].min = NotGiven
            THEN NoNights /\ \A r \in saves : r.body.min = NotGiven /\ r.body.max = NotGiven
            ELSE clip \notin values.wanted /\ \A r \in saves : r.from # "left"

MCSmall == AlertBounds /\ FormBounds

----------------------------------------------------------------------------
PagesRest ==
  /\ account = Account({"LOCATAIRE"}, FALSE, TRUE) /\ session = TRUE /\ path = "home" /\ stage = "shown"
  /\ menu = {} /\ read = {} /\ icon = {} /\ tries = 0 /\ refresh = FALSE /\ owed = FALSE /\ failures = 0

MCInit ==
  /\ regime \in {"pages", "alerts", "posting", "photos", "changing"}
  /\ IF regime = "pages" THEN TabInit ELSE PagesRest
  /\ IF regime = "alerts" THEN AlertInit ELSE AlertRest /\ due = {} /\ who = "nobody"
  /\ FormsRest(regime)

MCNext ==
  /\ UNCHANGED regime
  /\ \/ regime = "pages"  /\ TabNext      /\ UNCHANGED <<alertVars, formVars>>
     \/ regime = "alerts" /\ AlertNext /\ UNCHANGED <<tabVars, formVars>>
     \/ regime \in {"posting", "photos", "changing"} /\ FormNext /\ UNCHANGED <<tabVars, alertVars>>

MCSpec == /\ MCInit /\ [][MCNext]_<<tabVars, alertVars, formVars, regime>>
          /\ WF_tabVars(regime = "pages" /\ Moves /\ UNCHANGED <<alertVars, formVars, regime>>)
          /\ WF_tabVars(regime = "pages" /\ RefreshLayout /\ UNCHANGED <<alertVars, formVars, regime>>)
=============================================================================
