------------------------------- MODULE Details -------------------------------
(***************************************************************************)
(* The panel about one file (details.rs), what the window asks for it      *)
(* (window.rs), what the destination knows of the file, and the answers    *)
(* the screen keeps (screen.rs).  The engine answers each question on a    *)
(* task of its own, in any order, and its answers reach the screen         *)
(* whichever panel is open by then.                                        *)
(***************************************************************************)
EXTENDS Naturals, FiniteSets

CONSTANTS
    Files,
    None,       \* no file, no answer, nothing said
    Facets,     \* which of the small traits the destination answers
    Heads,      \* the headers a store keeps with each file: type, etag, class, version
    Attributes, \* what a filesystem keeps with each: user, uid, group, gid, link
    MaxAsked    \* how many questions may be asked in all, a bound

Who == {"owner", "group", "everyone"}
Access == {"read", "write", "execute"}
Modes == SUBSET (Who \X Access)

Grants == [to : {"owner", "AllUsers"}, permission : {"Read", "Write", "FullControl"}]

VARIABLES
    panel,       \* the file whose panel is open
    mode,        \* Details::file's mode, as its ticks show it
    copying,     \* Details::copy_when_signed
    shared,      \* Screen::shared_public and the file it tells of
    link,        \* the file Screen::shared_url leads to
    signed,      \* the file Screen::signed_url leads to
    described,   \* Screen::described
    describing,  \* Screen::describing
    clipboard,   \* the file whose link was copied last
    grants,      \* the access control list of each file
    modes,       \* the mode each file has
    asked,       \* the questions so far, numbered
    open,        \* those no task has answered yet
    news         \* the answers that wait to be heard

answers == <<shared, link, signed, described, describing>>
kept == <<grants, modes>>
vars == <<panel, mode, copying, answers, clipboard, kept, asked, open, news>>

Init ==
    /\ panel = None
    /\ mode = {}
    /\ copying = FALSE
    /\ shared = None /\ link = None /\ signed = None /\ described = None
    /\ describing = FALSE
    /\ clipboard = None
    /\ grants \in [Files -> {{g} : g \in Grants}]
    /\ modes = [f \in Files |-> {"owner"} \X Access]
    /\ asked = 0
    /\ open = {} /\ news = {}

-----------------------------------------------------------------------------
(* The panel.                                                              *)

Question(what, file) ==
    [what |-> what, of |-> file, at |-> asked, wanted |-> None, mode |-> {}]

Ask(questions) ==
    /\ asked < MaxAsked
    /\ asked' = asked + 1
    /\ open' = open \cup questions
    /\ UNCHANGED <<kept, news>>

(* Details::show: what is left of the last answers is cleared - that who   *)
(* may read is shown only where it can be asked for - and both questions   *)
(* are asked.                                                              *)
Share(file) ==
    IF "sharing" \in Facets
    THEN Ask({Question("share", file), Question("describe", file)})
         /\ shared' = None /\ link' = None /\ signed' = None
    ELSE Ask({Question("describe", file)}) /\ UNCHANGED <<shared, link, signed>>

OpenRow ==
    /\ panel = None
    /\ panel' \in Files
    /\ mode' = modes[panel']
    /\ Share(panel')
    /\ described' = None /\ describing' = TRUE
    /\ copying' = FALSE
    /\ UNCHANGED clipboard

Close ==
    /\ panel # None
    /\ panel' = None /\ copying' = FALSE
    /\ UNCHANGED <<mode, answers, clipboard, kept, asked, open, news>>

(* The switch stays where it is until the answer comes. *)
Reshare ==
    /\ panel # None /\ shared # None
    /\ \E wanted \in BOOLEAN :
          Ask({[Question("share", panel) EXCEPT !.wanted = wanted]})
    /\ UNCHANGED <<panel, mode, copying, answers, clipboard>>

(* A tick shows at once, and the whole mode is sent. *)
Permit ==
    /\ panel # None /\ "permitting" \in Facets
    /\ \E who \in Who, access \in Access : \E allowed \in BOOLEAN :
          mode' = IF allowed THEN mode \cup {<<who, access>>} ELSE mode \ {<<who, access>>}
    /\ Ask({[Question("permit", panel) EXCEPT !.mode = mode']})
    /\ UNCHANGED <<panel, copying, answers, clipboard>>

CopyLink ==
    /\ panel # None /\ link # None
    /\ clipboard' = link
    /\ UNCHANGED <<panel, mode, copying, answers, kept, asked, open, news>>

CopySigned ==
    /\ panel # None /\ "sharing" \in Facets
    /\ copying' = TRUE
    /\ Ask({Question("sign", panel)})
    /\ UNCHANGED <<panel, mode, answers, clipboard>>

-----------------------------------------------------------------------------
(* What the destination knows of a file, or changes.                       *)

visibility(f) ==
    \E g \in grants[f] : g.to = "AllUsers" /\ g.permission \in {"Read", "FullControl"}

set_visibility(f, public) ==
    LET owner == [to |-> "owner", permission |-> "FullControl"]
        anyone == [to |-> "AllUsers", permission |-> "Read"]
    IN  grants' = [grants EXCEPT ![f] = IF public THEN {owner, anyone} ELSE {owner}]

(* An address leads to the file it was built from. *)
public_url(f) == f
temporary_url(f) == f

served(f) == [type |-> Heads[f].type, etag |-> Heads[f].etag]

(* A store names the class only when it is not the ordinary one. *)
stored(f) ==
    [class |-> IF Heads[f].class = None THEN "STANDARD" ELSE Heads[f].class,
     version |-> Heads[f].version]

(* The name when the server gives one, the number when it does not. *)
ownership(f) ==
    LET a == Attributes[f]
    IN  [user |-> IF a.user = None THEN a.uid ELSE a.user,
         group |-> IF a.group = None THEN a.gid ELSE a.group]

link_target(f) == Attributes[f].link

-----------------------------------------------------------------------------
(* The engine.  The file is the one whose name came with the question.     *)

Answer(question, answer) ==
    /\ open' = open \ {question}
    /\ news' = news \cup {answer}
    /\ UNCHANGED asked

(* share: a change comes first, and then is read back; the store not       *)
(* saying who may read is an answer too.                                   *)
Change(question) ==
    /\ question.what = "share" /\ question.wanted # None
    /\ set_visibility(question.of, question.wanted)
    /\ open' = (open \ {question}) \cup {[question EXCEPT !.wanted = None]}
    /\ UNCHANGED <<modes, asked, news>>

ReadBack(question) ==
    /\ question.what = "share" /\ question.wanted = None
    /\ \E public \in {visibility(question.of), None} :
          Answer(question, [what |-> "shared", of |-> question.of, at |-> question.at,
                            public |-> public, url |-> public_url(question.of)])
    /\ UNCHANGED kept

(* describe: a part nobody answers, or that fails, is left out. *)
Part(facet, failing, value) == IF facet \in Facets \ failing THEN value ELSE None

Describe(question) ==
    /\ question.what = "describe"
    /\ \E failing \in SUBSET Facets :
          Answer(question, [what |-> "described", of |-> question.of, at |-> question.at,
                            ownership |-> Part("owning", failing, ownership(question.of)),
                            link_target |-> Part("linking", failing, link_target(question.of)),
                            served |-> Part("serving", failing, served(question.of)),
                            stored |-> Part("storing", failing, stored(question.of))])
    /\ UNCHANGED kept

SignLink(question) ==
    /\ question.what = "sign"
    /\ Answer(question, [what |-> "linked", of |-> question.of, at |-> question.at,
                         url |-> temporary_url(question.of)])
    /\ UNCHANGED kept

(* The folder is listed anew after it, which the panel does not look at. *)
SetPermissions(question) ==
    /\ question.what = "permit"
    /\ modes' = [modes EXCEPT ![question.of] = question.mode]
    /\ open' = open \ {question}
    /\ UNCHANGED <<grants, asked, news>>

(* Only a change or a signature can fail; that is told as an error. *)
Refuse(question) ==
    /\ question.what \in {"sign", "permit"} \/ question.wanted # None
    /\ open' = open \ {question}
    /\ UNCHANGED <<kept, asked, news>>

Engine ==
    /\ \E question \in open :
        \/ Change(question) \/ ReadBack(question) \/ Describe(question)
        \/ SignLink(question) \/ SetPermissions(question) \/ Refuse(question)
    /\ UNCHANGED <<panel, mode, copying, answers, clipboard>>

-----------------------------------------------------------------------------
(* Screen::receive looks at the answer and not at the name that came with  *)
(* it.                                                                     *)
Keep(answer) ==
    CASE answer.what = "shared" ->
            /\ shared' = IF answer.public = None THEN None
                         ELSE [of |-> answer.of, public |-> answer.public]
            /\ link' = answer.url
            /\ UNCHANGED <<signed, described, describing>>
      [] answer.what = "linked" ->
            signed' = answer.url /\ UNCHANGED <<shared, link, described, describing>>
      [] answer.what = "described" ->
            /\ described' = answer /\ describing' = FALSE
            /\ UNCHANGED <<shared, link, signed>>

(* Details::refresh: then the panel is drawn again, which copies a link    *)
(* that was wanted.                                                        *)
Redraw ==
    IF panel # None /\ copying /\ signed' # None
    THEN clipboard' = signed' /\ copying' = FALSE
    ELSE UNCHANGED <<clipboard, copying>>

Hear(answer) ==
    /\ news' = news \ {answer}
    /\ Keep(answer)
    /\ Redraw
    /\ UNCHANGED <<panel, mode, kept, asked, open>>

Next ==
    \/ OpenRow \/ Close \/ Reshare \/ Permit \/ CopyLink \/ CopySigned
    \/ Engine
    \/ \E answer \in news : Hear(answer)

Spec == Init /\ [][Next]_vars

-----------------------------------------------------------------------------
(* "Cleared first, so a panel opened on a second file never shows the      *)
(* first one's answer while the server is still being asked."  (window.rs  *)
(* share.)                                                                 *)
PanelShowsItsFile == panel # None /\ shared # None => shared.of = panel
=============================================================================
