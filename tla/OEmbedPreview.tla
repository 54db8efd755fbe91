---------------------------- MODULE OEmbedPreview ----------------------------
(***************************************************************************)
(* The previews in the editor: each block with an oEmbed address fetches   *)
(* what the server has looked up for it, whenever the address changes, and *)
(* shows what comes back, in whatever order.  The scripts that come with   *)
(* an answer are put into the page, which all blocks share, unless they    *)
(* are found there; then taking them out throws and nothing is shown.      *)
(*                                                                         *)
(* React and the form are external: a preview is mounted while its address *)
(* is not empty, as the condition of its field says.  A fetch has no       *)
(* timeout, and the server leaves some lookups without an answer.          *)
(***************************************************************************)
EXTENDS Naturals, Sequences

CONSTANTS
    Blocks,    (* the oEmbed blocks of the document *)
    Addresses, (* what somebody may enter *)
    ScriptOf,  (* the script each address brings, or Nothing *)
    Widgets,   (* the script every preview loads for itself *)
    Nothing,
    MaxFetches (* bound: changes of addresses to others *)

ASSUME PreviewAssumption ==
    /\ Nothing \notin Addresses /\ Widgets # Nothing
    /\ ScriptOf \in [Addresses -> {ScriptOf[u] : u \in Addresses}]
    /\ MaxFetches \in Nat

VARIABLES
    value,     (* the address of each block, Nothing while it is empty *)
    shown,     (* the address whose answer each preview shows *)
    fetches,   (* all that were sent: their block, address and outcome *)
    scripts,   (* the script elements put into the page, in the order they were *)
    broken,    (* the editor is gone *)
    overtaken  (* history: blocks where an earlier answer came after the latest *)

previewVars == <<value, shown, fetches, scripts, broken, overtaken>>

PreviewInit ==
    /\ value = [b \in Blocks |-> Nothing]
    /\ shown = [b \in Blocks |-> Nothing]
    /\ fetches = <<>> /\ scripts = <<>> /\ broken = FALSE /\ overtaken = {}

\* Mutant: a script is looked for by its id only.
Found_ById(script, id) == \E n \in DOMAIN scripts : scripts[n].id = id

\* A script is looked for by its address when it has no id, and then by the id
\* it does not have: "null", which is the id of every script put in that way.
Found(script, id) ==
    \/ id = "null" /\ \E n \in DOMAIN scripts : scripts[n].src = script
    \/ \E n \in DOMAIN scripts : scripts[n].id = id

Insert(script, id) == scripts' = Append(scripts, [src |-> script, id |-> id])

Fetch(b, url) == [block |-> b, url |-> url, at |-> "sent", mounted |-> TRUE]

-----------------------------------------------------------------------------
\* Mutant: a preview fetches when it is mounted, and not again.
Change_FirstOnly(b, url) ==
    /\ ~broken /\ url # value[b] /\ Len(fetches) < MaxFetches
    /\ value' = [value EXCEPT ![b] = url]
    /\ fetches' = IF value[b] = Nothing THEN Append(fetches, Fetch(b, url)) ELSE fetches
    /\ IF Found(Widgets, "twitter-wjs") THEN UNCHANGED scripts ELSE Insert(Widgets, "twitter-wjs")
    /\ overtaken' = overtaken \ {b}
    /\ UNCHANGED <<shown, broken>>

\* Another address: the preview is rendered, mounted if it was not, with the
\* script it loads for itself; its effect sends a fetch.  What it shows stays.
Change(b, url) ==
    /\ ~broken /\ url # value[b] /\ Len(fetches) < MaxFetches
    /\ value' = [value EXCEPT ![b] = url]
    /\ fetches' = Append(fetches, Fetch(b, url))
    /\ IF Found(Widgets, "twitter-wjs") THEN UNCHANGED scripts ELSE Insert(Widgets, "twitter-wjs")
    /\ overtaken' = overtaken \ {b}
    /\ UNCHANGED <<shown, broken>>

\* The address is cleared or the block removed.  Either the preview is unmounted
\* first, and with it what it shows, or it is rendered without an address: it
\* returns before the hooks it has used before, and React gives up.
Clear(b) ==
    /\ ~broken /\ value[b] # Nothing
    /\ value' = [value EXCEPT ![b] = Nothing]
    /\ shown' = [shown EXCEPT ![b] = Nothing]
    /\ fetches' = [k \in DOMAIN fetches |->
           [fetches[k] EXCEPT !.mounted = @ /\ fetches[k].block # b]]
    /\ broken' \in BOOLEAN
    /\ overtaken' = overtaken \ {b}
    /\ UNCHANGED scripts

\* A fetch of this preview, since it was mounted; the last that was sent.
Mine(b, k) == fetches[k].block = b /\ fetches[k].mounted
Latest(b, k) == Mine(b, k) /\ \A j \in DOMAIN fetches : Mine(b, j) => j <= k
Settles(k, outcome) == fetches' = [fetches EXCEPT ![k].at = outcome]

\* The answer is put into a preview that is still mounted; its script gets into
\* the page whether or not it is.
Show(k) ==
    LET b == fetches[k].block
        late == Mine(b, k) /\ \E j \in DOMAIN fetches : Latest(b, j) /\ fetches[j].at = "shown"
    IN  /\ Settles(k, "shown")
        /\ shown' = IF fetches[k].mounted THEN [shown EXCEPT ![b] = fetches[k].url] ELSE shown
        /\ overtaken' = IF late THEN overtaken \cup {b} ELSE overtaken

Answer(k) ==
    /\ ~broken /\ fetches[k].at = "sent"
    /\ LET script == ScriptOf[fetches[k].url]
       IN  \/ script = Nothing /\ Show(k) /\ UNCHANGED scripts
           \/ script # Nothing /\ ~Found(script, "null") /\ Show(k) /\ Insert(script, "null")
           \/ /\ script # Nothing /\ Found(script, "null")
              /\ Settles(k, "threw") /\ UNCHANGED <<shown, scripts, overtaken>>
    /\ UNCHANGED <<value, broken>>

Reject(k) ==
    /\ ~broken /\ fetches[k].at = "sent"
    /\ Settles(k, "rejected")
    /\ UNCHANGED <<value, shown, scripts, broken, overtaken>>

PreviewNext ==
    \/ \E b \in Blocks, url \in Addresses : Change(b, url)
    \/ \E b \in Blocks : Clear(b)
    \/ \E k \in DOMAIN fetches : Answer(k) \/ Reject(k)

PreviewSpec == PreviewInit /\ [][PreviewNext]_previewVars

-----------------------------------------------------------------------------
(* Properties *)

PreviewTypeOK ==
    /\ value \in [Blocks -> Addresses \cup {Nothing}] /\ shown \in [Blocks -> Addresses \cup {Nothing}]
    /\ fetches \in Seq([block : Blocks, url : Addresses, mounted : BOOLEAN,
                        at : {"sent", "shown", "threw", "rejected"}])
    /\ scripts \in Seq([src : {ScriptOf[u] : u \in Addresses} \cup {Widgets}, id : {"twitter-wjs", "null"}])
    /\ broken \in BOOLEAN /\ overtaken \subseteq Blocks

\* Once the answer for the address of a block is there, the preview shows it, and
\* goes on to, unless the answer to an address the block had before comes after
\* that one: then it shows the earlier address.  What was sent before the preview
\* was last mounted does not matter.
PreviewFollowsAddress ==
    \A b \in Blocks, k \in DOMAIN fetches :
        Latest(b, k) /\ fetches[k].at = "shown" =>
            \/ shown[b] = value[b]
            \/ /\ b \in overtaken
               /\ \E j \in DOMAIN fetches :
                      j < k /\ Mine(b, j) /\ fetches[j].at = "shown" /\ shown[b] = fetches[j].url

\* No script is put into the page twice, whatever the previews load for themselves
\* and the answers bring.
ScriptsLoadOnce ==
    \A m, n \in DOMAIN scripts : scripts[m].src = scripts[n].src => m = n

\* What the block's description says of its platforms, Twitter among them: an
\* answer that comes is shown.  It is not when its script is there already.
AnswersAreShown == \A k \in DOMAIN fetches : fetches[k].at # "threw"
=============================================================================
