------------------------ MODULE ArticleTranslations ------------------------
(***************************************************************************)
(* The language versions of one published article: the original and its    *)
(* revisions, the automatic translations that application tasks fill in,   *)
(* the translations people draft, publish, acknowledge and withdraw, the   *)
(* notifications that tell them the original changed, and what readers and *)
(* peers see of it all (models/article.ts, article-publication.ts,         *)
(* article-revision.ts, article-translation.ts,                            *)
(* article-translation-review.ts).                                         *)
(*                                                                         *)
(* Every operation is one transaction under the row lock of the article's  *)
(* source, so each is one action.  What interleaves is the call of the     *)
(* language model between the two transactions of a task, tasks that are   *)
(* retried or run twice, readers who pass on an original they read         *)
(* earlier, and the people who edit.                                       *)
(***************************************************************************)
EXTENDS Naturals, Sequences, SequencesExt

CONSTANTS
    Lang,         \* the languages translated into
    Text,         \* titles with bodies, of the original
    BodyOf,       \* the body of each: texts with the same differ in the title
    FirstText,    \* the one first published
    NoText,
    Translator,   \* people who translate, whose notifications are followed
    SomebodyElse, \* one more, who may always edit and whose are not
    Token, NoToken,         \* translation_job_token, and null
    Stamp, Epoch,           \* values of the column updated; new Date(0)
    Worker,       \* executions of translation tasks
    MaxRevision   \* bound: revisions of the original

ASSUME ArticleTranslationsAssumption ==
    /\ Lang # {} /\ Stamp # {}
    /\ FirstText \in Text
    /\ NoText \notin Text
    /\ SomebodyElse \notin Translator
    /\ NoToken \notin Token
    /\ Epoch \notin Stamp
    /\ MaxRevision \in Nat \ {0}

VARIABLES
    original,     \* the original's row: its text and current revision
    snapshot,     \* article_source_revision: the text of each revision
    allowed,      \* article_source.allow_llm_translation
    censored,     \* post.censored; nothing here changes it
    content,      \* article_content: the row of each language, if any
    draft,        \* article_translation_draft: likewise
    notice,       \* the outstanding "original changed" notification, by person
    access,       \* who may act for the article's owner
    task,         \* the tasks of each language's ordering key, by job token
    exec,         \* what each worker executes
    abandoned,    \* the languages whose placeholder has lost its task to the
                  \* dead letters
    variant,      \* post_content_variant: what readers see
    federated     \* the object of the last Update: what peers see

article == <<original, snapshot, allowed, censored>>
public == <<variant, federated>>
jobs == <<task, exec, abandoned>>
vars == <<article, content, draft, notice, access, jobs, public>>

(* Revision 0 is the null baseline.                                        *)
Revision == 0..MaxRevision
Person == Translator \cup {SomebodyElse}

(* "text" is the original's text that a placeholder holds, and of which an *)
(* automatic translation is a translation.  "reviewed": a person           *)
(* acknowledged the baseline of an automatic translation.                  *)
RowRecord ==
    [kind : {"none", "llm", "human"}, placeholder : BOOLEAN,
     text : Text \cup {NoText}, base : Revision, token : Token \cup {NoToken},
     stamp : Stamp \cup {Epoch}, translator : Person,
     reviewed : BOOLEAN]

NoRow ==
    [kind |-> "none", placeholder |-> FALSE, text |-> NoText, base |-> 0,
     token |-> NoToken, stamp |-> Epoch, translator |-> SomebodyElse,
     reviewed |-> FALSE]

DraftRecord == [exists : BOOLEAN, base : Revision, translator : Person]
NoDraft == [exists |-> FALSE, base |-> 0, translator |-> SomebodyElse]

(* No notification: no languages. *)
NoticeRecord == [langs : SUBSET Lang, rev : Revision]
NoNotice == [langs |-> {}, rev |-> 0]

(* "holds": the lease of the task has not been lost to another execution.  *)
ExecRecord ==
    [lang : Lang, token : Token \cup {NoToken}, claim : Stamp \cup {Epoch},
     text : Text \cup {NoText}, holds : BOOLEAN]
IdleExec ==
    [lang |-> CHOOSE l \in Lang : TRUE, token |-> NoToken, claim |-> Epoch,
     text |-> NoText, holds |-> FALSE]

Freshness == {"current", "source_changed", "unknown"}
NoVersion == [kind |-> "none", text |-> NoText, freshness |-> "unknown"]
Version == [kind : {"none", "llm", "human"}, text : Text \cup {NoText},
            freshness : Freshness]
Publication == [text : Text, version : [Lang -> Version]]

TypeOK ==
    /\ original \in [text : Text, rev : Revision]
    /\ snapshot \in Seq(Text) /\ Len(snapshot) <= MaxRevision
    /\ allowed \in BOOLEAN /\ censored \in BOOLEAN
    /\ content \in [Lang -> RowRecord]
    /\ \A l \in Lang : content[l].placeholder <=> content[l].token # NoToken
    /\ draft \in [Lang -> DraftRecord]
    /\ notice \in [Translator -> NoticeRecord]
    /\ access \subseteq Translator
    /\ task \in [Lang -> Seq(Token)]
    /\ exec \in [Worker -> ExecRecord]
    /\ abandoned \subseteq Lang
    /\ variant \in Publication /\ federated \in Publication

-----------------------------------------------------------------------------
(* Review states, and the public state of the article. *)

(* getReviewState: identity of revisions, never equality of texts.         *)
ReviewState(base, rev) ==
    CASE base = 0 \/ rev = 0 -> "unknown"
      [] base # 0 /\ base = rev -> "current"
      [] OTHER -> "source_changed"

(* A placeholder is never materialized. *)
\* mutant: it is
Mutant_Visible(r) == r.kind # "none"
Visible(r) == r.kind # "none" /\ ~r.placeholder

Public(o, c) ==
    [text |-> o.text,
     version |-> [l \in Lang |->
        IF Visible(c[l])
        THEN [kind |-> c[l].kind, text |-> c[l].text,
              freshness |-> ReviewState(c[l].base, o.rev)]
        ELSE NoVersion]]

(* publishArticleState: censored articles are not federated. *)
Publish(o, c) ==
    /\ variant' = Public(o, c)
    /\ federated' = IF censored THEN federated ELSE Public(o, c)

-----------------------------------------------------------------------------
(* The notifications. *)

(* collectAffectedLanguagesByTranslator: the languages whose published     *)
(* version, or private draft, credited to the person is not current.       *)
Affected(t, c, d, rev) ==
    {l \in Lang :
        \/ /\ c[l].kind = "human" /\ c[l].translator = t
           /\ ReviewState(c[l].base, rev) # "current"
        \/ /\ d[l].exists /\ d[l].translator = t
           /\ ReviewState(d[l].base, rev) # "current"}

(* syncTranslationReviewNotifications.  "raising" are the people for whom  *)
(* a row may be created: nobody when a review is reconciled, and all but   *)
(* the editor when the original changed.                                   *)
Synced(c, d, rev, raising) ==
    [t \in Translator |->
        LET langs == IF t \in access THEN Affected(t, c, d, rev) ELSE {} IN
        IF langs = {} THEN NoNotice
        ELSE IF rev = 0 \/ (notice[t] = NoNotice /\ t \notin raising)
        THEN notice[t]
        ELSE [langs |-> langs, rev |-> rev]]

(* The reconciliation after a review action; its rev is the current one.   *)
\* mutant: the notifications are left alone
Mutant_Reconcile(c, d) == UNCHANGED notice
Reconcile(c, d) == notice' = Synced(c, d, original.rev, {})

-----------------------------------------------------------------------------
(* Revisions, tokens and time stamps. *)

(* createSourceRevision *)
NextRevision == Len(snapshot) + 1

(* ensureSourceRevision, for an article that predates the revisions.       *)
Ensured(o) ==
    /\ o.rev = 0 => Len(snapshot) < MaxRevision
    /\ snapshot' = IF o.rev = 0 THEN Append(snapshot, o.text) ELSE snapshot
    /\ original' = IF o.rev = 0 THEN [o EXCEPT !.rev = NextRevision] ELSE o

(* matchingSourceRevisionSql *)
MatchingRevision(text) ==
    IF original.rev # 0 /\ snapshot[original.rev] = text THEN original.rev ELSE 0

(* Fresh tokens, one for each language: values that nothing has any more   *)
(* or yet.  Which ones is immaterial.                                      *)
TokensInUse ==
    {content[l].token : l \in Lang} \cup {exec[w].token : w \in Worker}
        \cup UNION {Range(task[l]) : l \in Lang}
FreshTokens ==
    {token \in [Lang -> Token \ TokensInUse] :
        \A l, m \in Lang : token[l] = token[m] => l = m}
Tokens == CHOOSE token \in FreshTokens : TRUE

(* The present time.  Stamps are compared along with the token only.       *)
StampsOf(token) ==
    {content[l].stamp : l \in {m \in Lang : content[m].token = token}}
        \cup {exec[w].claim : w \in {v \in Worker : exec[v].token = token}}
Time(token) == Stamp \ StampsOf(token)
Now(token) == CHOOSE s \in Time(token) : TRUE

Placeholder(text, base, token) ==
    [NoRow EXCEPT !.kind = "llm", !.placeholder = TRUE, !.text = text,
                  !.base = base, !.token = token, !.stamp = Now(token)]

-----------------------------------------------------------------------------
(* The author edits the original, its metadata, or both. *)

(* restartArticleContentTranslations: the automatic versions become        *)
(* placeholders of the new text, each with a task of its own.              *)
Automatic(l) == content[l].kind = "llm"

Restarted(text, rev, token) ==
    [l \in Lang |-> IF Automatic(l) THEN Placeholder(text, rev, token[l])
                    ELSE content[l]]

UpdateArticle(text, allow, editor) ==
    LET changed == text # original.text
        restarts == ~censored /\ allow /\ BodyOf[text] # BodyOf[original.text]
        o == IF changed THEN [text |-> text, rev |-> NextRevision] ELSE original
    IN /\ changed => Len(snapshot) < MaxRevision
       /\ original' = o
       /\ snapshot' = IF changed THEN Append(snapshot, text) ELSE snapshot
       /\ allowed' = allow
       /\ notice' = IF changed
                    THEN Synced(content, draft, o.rev, Translator \ {editor})
                    ELSE notice
       /\ IF restarts
          THEN /\ FreshTokens # {}
               /\ content' = Restarted(text, o.rev, Tokens)
               /\ task' = [l \in Lang |->
                             IF content'[l] = content[l] THEN task[l]
                             ELSE Append(task[l], content'[l].token)]
               /\ abandoned' = {l \in abandoned : ~Automatic(l)}
          ELSE UNCHANGED <<content, task, abandoned>>
       /\ Publish(o, content')
       /\ UNCHANGED <<censored, draft, access, exec>>

-----------------------------------------------------------------------------
(* A reader asks for a translation, passing on an original read earlier.   *)

Readable == {original.text} \cup Range(snapshot)

(* Half an hour without a sign of life, or the end of a failed attempt,    *)
(* may have passed by any step.                                            *)
Reclaimable(r) == r.placeholder

StartArticleContentTranslation(l, text) ==
    /\ text \in Readable
    /\ content[l].kind = "none" \/ Reclaimable(content[l])
    /\ FreshTokens # {}
    /\ content' = [content EXCEPT
                     ![l] = Placeholder(text, MatchingRevision(text), Tokens[l])]
    /\ task' = [task EXCEPT ![l] = Append(@, Tokens[l])]
    /\ abandoned' = abandoned \ {l}
    /\ UNCHANGED <<article, draft, notice, access, exec, public>>

-----------------------------------------------------------------------------
(* A task fills a placeholder in. *)

(* translationJobWhere *)
JobRow(l, token, claim) ==
    /\ content[l].placeholder /\ content[l].token = token
    /\ claim # Epoch => content[l].stamp = claim

\* mutant: an original that was edited meanwhile is not noticed
Mutant_Matches(r) == TRUE
Matches(r) ==
    /\ r.text = original.text
    /\ r.base = 0 \/ r.base = original.rev

(* eligibleArticleTranslation, when the job is not: the placeholder goes   *)
(* when translation is no longer allowed, and is refreshed, with a new     *)
(* task, when the original has changed.                                    *)
Ineligible(l, token, claim, tasks) ==
    IF JobRow(l, token, claim) /\ allowed
    THEN /\ FreshTokens # {}
         /\ Ensured(original)
         /\ content' = [content EXCEPT
                ![l] = Placeholder(original.text, original'.rev, Tokens[l])]
         /\ task' = [task EXCEPT ![l] = Append(tasks, Tokens[l])]
         /\ abandoned' = abandoned \ {l}
    ELSE /\ content' = IF JobRow(l, token, claim)
                       THEN [content EXCEPT ![l] = NoRow] ELSE content
         /\ task' = [task EXCEPT ![l] = tasks]
         /\ UNCHANGED <<original, snapshot, abandoned>>

Eligible(l, token, claim) ==
    JobRow(l, token, claim) /\ allowed /\ Matches(content[l])

(* The first task of the key is executed, again when the lease of an       *)
(* earlier execution was lost: the transaction of the claim.               *)
Free(w) == exec[w].token = NoToken
Loses(v, l) == ~Free(v) /\ exec[v].lang = l

BeginTranslation(w, l) ==
    /\ Free(w) /\ task[l] # <<>>
    /\ LET t == Head(task[l])
           lost == [v \in Worker |-> IF Loses(v, l) THEN [exec[v] EXCEPT !.holds = FALSE]
                                     ELSE exec[v]]
       IN IF Eligible(l, t, Epoch)
          THEN /\ Time(t) # {}
               /\ Ensured(original)
               /\ content' = [content EXCEPT
                                ![l].stamp = Now(t),
                                ![l].base = IF @ = 0 THEN original'.rev ELSE @]
               /\ exec' = [lost EXCEPT
                             ![w] = [lang |-> l, token |-> t, claim |-> Now(t),
                                     text |-> content[l].text, holds |-> TRUE]]
               /\ UNCHANGED <<task, abandoned>>
          ELSE /\ Ineligible(l, t, Epoch, Tail(task[l]))
               /\ exec' = lost
    /\ UNCHANGED <<allowed, censored, draft, notice, access, public>>

(* The acknowledgement of the task: without effect once the lease is lost. *)
\* mutant: whatever task is the first by then
Mutant_Remaining(w) ==
    LET tasks == task[exec[w].lang] IN IF tasks = <<>> THEN tasks ELSE Tail(tasks)
Remaining(w) == IF exec[w].holds THEN Tail(task[exec[w].lang]) ELSE task[exec[w].lang]

(* The model has answered. *)
\* mutant: the token of the job is kept
Mutant_Filled(w) ==
    [content EXCEPT ![exec[w].lang] =
        [@ EXCEPT !.placeholder = FALSE, !.text = exec[w].text]]
Filled(w) ==
    [content EXCEPT ![exec[w].lang] =
        [@ EXCEPT !.placeholder = FALSE, !.text = exec[w].text,
                  !.token = NoToken, !.stamp = Epoch]]

FinishTranslation(w) ==
    LET l == exec[w].lang IN
    /\ ~Free(w)
    /\ IF Eligible(l, exec[w].token, exec[w].claim)
       THEN /\ content' = Filled(w)
            /\ task' = [task EXCEPT ![l] = Remaining(w)]
            /\ Publish(original, content')
            /\ UNCHANGED <<original, snapshot, abandoned>>
       ELSE /\ Ineligible(l, exec[w].token, exec[w].claim, Remaining(w))
            /\ UNCHANGED public
    /\ exec' = [exec EXCEPT ![w] = IdleExec]
    /\ UNCHANGED <<allowed, censored, draft, notice, access>>

(* The model, or the second transaction, fails: the claim is released, so  *)
(* that readers may reclaim it before the queue tries again; at a shutdown *)
(* or crash it is not.                                                     *)
FailTranslation(w, released) ==
    LET l == exec[w].lang IN
    /\ ~Free(w)
    /\ content' = IF released /\ JobRow(l, exec[w].token, exec[w].claim)
                  THEN [content EXCEPT ![l].stamp = Epoch]
                  ELSE content
    /\ exec' = [exec EXCEPT ![w] = IdleExec]
    /\ UNCHANGED <<article, draft, notice, access, task, abandoned, public>>

(* The attempts of a task are exhausted. *)
TaskDies(l) ==
    /\ task[l] # <<>>
    /\ \A w \in Worker : ~(exec[w].token = Head(task[l]) /\ exec[w].holds)
    /\ task' = [task EXCEPT ![l] = Tail(@)]
    /\ abandoned' = IF content[l].token = Head(task[l]) THEN abandoned \cup {l}
                    ELSE abandoned
    /\ UNCHANGED <<article, content, draft, notice, access, exec, public>>

-----------------------------------------------------------------------------
(* People translate. *)

(* saveArticleTranslationDraft, creating: the baseline is the present      *)
(* revision; what the draft says is abstracted.                            *)
CreateDraft(l, t) ==
    /\ ~draft[l].exists /\ t \in access \cup {SomebodyElse}
    /\ Ensured(original)
    /\ draft' = [draft EXCEPT ![l] = [exists |-> TRUE, base |-> original'.rev,
                                      translator |-> t]]
    /\ UNCHANGED <<allowed, censored, content, notice, access, jobs, public>>

(* ... and updating: the credit moves. *)
CreditDraft(l, t) ==
    /\ draft[l].exists /\ t # draft[l].translator
    /\ t \in access \cup {SomebodyElse}
    /\ draft' = [draft EXCEPT ![l].translator = t]
    /\ Reconcile(content, draft')
    /\ UNCHANGED <<article, content, access, jobs, public>>

DeleteDraft(l) ==
    /\ draft[l].exists
    /\ draft' = [draft EXCEPT ![l] = NoDraft]
    /\ Reconcile(content, draft')
    /\ UNCHANGED <<article, content, access, jobs, public>>

(* publishArticleTranslation; r is the revision the publisher was shown,   *)
(* or 0 for the baseline the draft has carried since it was created.       *)
\* mutant: the running job is not fenced off
Mutant_PublishedRow(l, base) ==
    [content[l] EXCEPT !.kind = "human", !.base = base,
                       !.translator = draft[l].translator]
PublishedRow(l, base) ==
    [NoRow EXCEPT !.kind = "human", !.base = base,
                  !.translator = draft[l].translator]

PublishTranslation(l, r) ==
    LET base == IF r = 0 THEN draft[l].base ELSE r IN
    /\ draft[l].exists /\ r \in 0..Len(snapshot)
    /\ content' = [content EXCEPT ![l] = PublishedRow(l, base)]
    /\ draft' = [draft EXCEPT ![l].base = base]
    /\ Reconcile(content', draft')
    /\ Publish(original, content')
    /\ UNCHANGED <<article, access, jobs>>

(* acknowledgeArticleTranslation: the revision that was read is recorded,  *)
(* on the draft and on the published version, but not on a placeholder.    *)
Reviewable(l) == Visible(content[l])

Acknowledge(l, r) ==
    /\ r \in 1..Len(snapshot)
    /\ draft[l].exists \/ Reviewable(l)
    /\ draft' = IF draft[l].exists THEN [draft EXCEPT ![l].base = r] ELSE draft
    /\ content' = IF Reviewable(l)
                  THEN [content EXCEPT ![l].base = r, ![l].reviewed = content[l].kind = "llm"]
                  ELSE content
    /\ Reconcile(content', draft')
    /\ IF content'[l].base # content[l].base
       THEN Publish(original, content')
       ELSE UNCHANGED public
    /\ UNCHANGED <<article, access, jobs>>

(* withdrawArticleTranslation: the draft is kept. *)
Withdraw(l) ==
    /\ content[l].kind = "human"
    /\ content' = [content EXCEPT ![l] = NoRow]
    /\ Reconcile(content', draft)
    /\ Publish(original, content')
    /\ UNCHANGED <<article, draft, access, jobs>>

(* A member leaves the organization that owns the article, and with the    *)
(* membership go the notifications; or one joins.                          *)
LoseAccess(t) ==
    /\ t \in access
    /\ access' = access \ {t}
    /\ notice' = [notice EXCEPT ![t] = NoNotice]
    /\ UNCHANGED <<article, content, draft, jobs, public>>

GainAccess(t) ==
    /\ t \in Translator \ access
    /\ access' = access \cup {t}
    /\ UNCHANGED <<article, content, draft, notice, jobs, public>>

-----------------------------------------------------------------------------
(* The article has been published with its first revision, or before there *)
(* were any; a language may have a version of unknown baseline then.       *)
Init ==
    /\ \/ original = [text |-> FirstText, rev |-> 1] /\ snapshot = <<FirstText>>
       \/ original = [text |-> FirstText, rev |-> 0] /\ snapshot = <<>>
    /\ allowed = TRUE /\ censored \in BOOLEAN
    /\ access = Translator
    /\ content \in
         [Lang -> {NoRow} \cup
                  (IF original.rev # 0 THEN {}
                   ELSE {[NoRow EXCEPT !.kind = "human", !.translator = t] : t \in access})]
    /\ draft = [l \in Lang |-> NoDraft]
    /\ notice = [t \in Translator |-> NoNotice]
    /\ task = [l \in Lang |-> <<>>]
    /\ exec = [w \in Worker |-> IdleExec]
    /\ abandoned = {}
    /\ variant = Public(original, content)
    /\ federated = variant

Next ==
    \/ \E text \in Text, allow \in BOOLEAN, p \in Person :
          UpdateArticle(text, allow, p)
    \/ \E l \in Lang, text \in Text : StartArticleContentTranslation(l, text)
    \/ \E w \in Worker, l \in Lang : BeginTranslation(w, l)
    \/ \E w \in Worker : \/ FinishTranslation(w)
                         \/ \E b \in BOOLEAN : FailTranslation(w, b)
    \/ \E l \in Lang : \/ TaskDies(l) \/ DeleteDraft(l)
                       \/ \E r \in Revision : PublishTranslation(l, r) \/ Acknowledge(l, r)
                       \/ Withdraw(l)
                       \/ \E p \in Person : CreateDraft(l, p) \/ CreditDraft(l, p)
    \/ \E t \in Translator : LoseAccess(t) \/ GainAccess(t)

Spec == Init /\ [][Next]_vars

-----------------------------------------------------------------------------
(* Properties. *)

(* Readers always see the present public state, and peers, unless the post *)
(* is censored, the same in the last Update they were sent: no operation   *)
(* changes a version, its freshness or its disappearance without           *)
(* rebuilding the variants and sending an Update.  Placeholders are in     *)
(* neither.                                                                *)
PublicAgrees ==
    /\ variant = Public(original, content)
    /\ ~censored => federated = variant
    /\ \A l \in Lang : content[l].placeholder => variant.version[l] = NoVersion

(* An automatic version that nobody reviewed claims no freshness it does   *)
(* not have: the revision it names is the one it is a translation of,      *)
(* whatever edits, reclaims and late answers crossed.                      *)
FreshnessHonest ==
    \A l \in Lang :
        LET r == content[l] IN
        r.kind = "llm" /\ ~r.placeholder /\ ~r.reviewed /\ r.base # 0
        => r.text = snapshot[r.base]

(* An outstanding notification tells the truth to someone who may act on   *)
(* it: the newest revision, and exactly the languages in which a version   *)
(* or draft credited to the person awaits review.                          *)
NoticeTrue ==
    \A t \in Translator :
        notice[t] # NoNotice =>
            /\ t \in access
            /\ notice[t] = [langs |-> Affected(t, content, draft, original.rev),
                            rev |-> original.rev]

(* A task that ends has dealt with its placeholder: each placeholder has a *)
(* task to come that will fill it in, unless that task is a dead letter.   *)
PlaceholderBacked ==
    \A l \in Lang :
        content[l].placeholder =>
            content[l].token \in Range(task[l]) \/ l \in abandoned

(* What a person published, only a person replaces or withdraws: no job    *)
(* that was started before, is retried or answers late overwrites it.      *)
HumanTextKept ==
    [][\A l \in Lang :
          content[l].kind = "human" /\ content'[l].kind # "human"
          => Withdraw(l)]_vars

=============================================================================
