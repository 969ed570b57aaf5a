--------------------- MODULE ArticleTranslationsProofs ---------------------
(***************************************************************************)
(* Proofs about the language versions of an article, for any number of     *)
(* languages, texts, people, tokens, executions and revisions: types, that *)
(* readers and peers see the present state, that automatic versions claim  *)
(* no freshness they do not have, that notifications tell the truth, that  *)
(* every placeholder has a task to come, and that what people published    *)
(* only people replace.                                                    *)
(***************************************************************************)
EXTENDS ArticleTranslations, TLAPS

(* A placeholder is automatic and unreviewed.  Bases are revisions there   *)
(* are, and an automatic version nobody reviewed, even a placeholder, has  *)
(* the text of its base (given the snapshots s).                           *)
RowTrue(r, s) ==
    /\ r.placeholder => r.kind = "llm" /\ ~r.reviewed
    /\ r.base <= Len(s)
    /\ r.kind = "llm" /\ ~r.reviewed /\ r.base # 0 => r.text = s[r.base]

Rows == \A l \in Lang : RowTrue(content[l], snapshot)

Drafts == \A l \in Lang : draft[l].base <= Len(snapshot)

(* The original is the text of its revision; an article that predates the  *)
(* revisions has none yet, and nobody was notified of a change.            *)
Revisions ==
    IF original.rev = 0
    THEN snapshot = <<>> /\ \A t \in Translator : notice[t] = NoNotice
    ELSE original.rev <= Len(snapshot) /\ snapshot[original.rev] = original.text

(* What an execution translates is still what its placeholder holds, for   *)
(* as long as that has the token.  One that has not lost the lease is of   *)
(* the first task of the key, and its claim is the last of that job.       *)
ExecTrue(e, r, q) ==
    IF e.token = NoToken THEN e = IdleExec
    ELSE /\ e.claim # Epoch
         /\ r.token = e.token => r.text = e.text
         /\ e.holds => /\ q # <<>> /\ Head(q) = e.token
                       /\ r.token = e.token => r.stamp = e.claim

Executions ==
    \A w \in Worker : ExecTrue(exec[w], content[exec[w].lang], task[exec[w].lang])

(* Executions of the same job have different claims, and only one of those *)
(* of a language has not lost the lease.                                   *)
Apart(d, e) ==
    d.token # NoToken /\ e.token # NoToken =>
        /\ d.token = e.token => d.claim # e.claim
        /\ ~(d.holds /\ e.holds /\ d.lang = e.lang)

Fences == \A v, w \in Worker : v # w => Apart(exec[v], exec[w])

IInv ==
    /\ TypeOK
    /\ PublicAgrees
    /\ Rows /\ Drafts /\ Revisions
    /\ NoticeTrue
    /\ PlaceholderBacked
    /\ Executions /\ Fences

-----------------------------------------------------------------------------
(* Sequences and records. *)

(* What a sequence without its head, or with one element more, holds.      *)
LEMMA TailHolds ==
    ASSUME NEW S, NEW q \in Seq(S), q # <<>>
    PROVE  /\ Head(q) \in S /\ Tail(q) \in Seq(S)
           /\ \A x \in Range(q) : x = Head(q) \/ x \in Range(Tail(q))
<1>1. /\ Head(q) \in S /\ Tail(q) \in Seq(S) /\ Len(q) \in Nat /\ Len(q) > 0
      /\ Head(q) = q[1] /\ Len(Tail(q)) = Len(q) - 1
      /\ \A i \in 1..(Len(q) - 1) : Tail(q)[i] = q[i + 1]
  OBVIOUS
<1>2. ASSUME NEW x \in Range(q), x # Head(q)  PROVE x \in Range(Tail(q))
  <2>1. PICK i \in 1..Len(q) : x = q[i]
    BY DEF Range
  <2>2. i # 1 /\ i - 1 \in 1..(Len(q) - 1) /\ i = (i - 1) + 1
    BY <1>1, <1>2, <2>1
  <2>3. x = Tail(q)[i - 1]
    BY <1>1, <2>1, <2>2
  <2>4. DOMAIN Tail(q) = 1..(Len(q) - 1)
    BY <1>1
  <2> QED  BY <2>2, <2>3, <2>4 DEF Range
<1> QED  BY <1>1, <1>2

(* ... with one element more.                                              *)
LEMMA AppendHolds ==
    ASSUME NEW S, NEW q \in Seq(S), NEW x \in S
    PROVE  /\ Append(q, x) \in Seq(S) /\ Append(q, x) # <<>>
           /\ Len(Append(q, x)) = Len(q) + 1 /\ Append(q, x)[Len(q) + 1] = x
           /\ \A i \in 1..Len(q) : Append(q, x)[i] = q[i]
           /\ x \in Range(Append(q, x)) /\ Range(q) \subseteq Range(Append(q, x))
           /\ q # <<>> => Head(Append(q, x)) = Head(q)
<1>1. /\ Append(q, x) \in Seq(S) /\ Len(Append(q, x)) = Len(q) + 1 /\ Len(q) \in Nat
      /\ Append(q, x)[Len(q) + 1] = x
      /\ \A i \in 1..Len(q) : Append(q, x)[i] = q[i]
  OBVIOUS
<1>2. DOMAIN Append(q, x) = 1..(Len(q) + 1) /\ DOMAIN q = 1..Len(q)
  BY <1>1
<1>3. x \in Range(Append(q, x)) /\ Range(q) \subseteq Range(Append(q, x))
  <2>1. Len(q) + 1 \in 1..(Len(q) + 1) /\ \A i \in 1..Len(q) : i \in 1..(Len(q) + 1)
    BY <1>1
  <2> QED  BY <1>1, <1>2, <2>1 DEF Range
<1>4. Append(q, x) # <<>>
  BY <1>1
<1>5. q # <<>> => Head(Append(q, x)) = Head(q)
  BY <1>1
<1> QED  BY <1>1, <1>3, <1>4, <1>5

(* The components of the state.                                            *)
LEMMA Typed ==
    ASSUME IInv
    PROVE  /\ original.text \in Text /\ original.rev \in Revision
           /\ original = [text |-> original.text, rev |-> original.rev]
           /\ snapshot \in Seq(Text) /\ Len(snapshot) \in 0..MaxRevision
           /\ \A l \in Lang : /\ content[l] \in RowRecord
                              /\ content[l].text \in Text \cup {NoText}
                              /\ content[l].base \in Revision
                              /\ content[l].token \in Token \cup {NoToken}
                              /\ content[l].stamp \in Stamp \cup {Epoch}
                              /\ draft[l] \in DraftRecord
                              /\ draft[l].base \in Revision
                              /\ draft[l].translator \in Person
                              /\ task[l] \in Seq(Token)
           /\ \A w \in Worker : /\ exec[w] \in ExecRecord
                                /\ exec[w].lang \in Lang
                                /\ exec[w].token \in Token \cup {NoToken}
                                /\ exec[w].claim \in Stamp \cup {Epoch}
<1>1. /\ original.text \in Text /\ original.rev \in Revision
      /\ original = [text |-> original.text, rev |-> original.rev]
  BY DEF IInv, TypeOK
<1>2. snapshot \in Seq(Text) /\ Len(snapshot) \in 0..MaxRevision
  BY ArticleTranslationsAssumption DEF ArticleTranslationsAssumption, IInv, TypeOK
<1>3. ASSUME NEW l \in Lang
      PROVE  /\ content[l] \in RowRecord
             /\ content[l].text \in Text \cup {NoText}
             /\ content[l].base \in Revision
             /\ content[l].token \in Token \cup {NoToken}
             /\ content[l].stamp \in Stamp \cup {Epoch}
             /\ draft[l] \in DraftRecord
             /\ draft[l].base \in Revision
             /\ draft[l].translator \in Person
             /\ task[l] \in Seq(Token)
  BY DEF IInv, TypeOK, RowRecord, DraftRecord
<1>4. ASSUME NEW w \in Worker
      PROVE  /\ exec[w] \in ExecRecord
             /\ exec[w].lang \in Lang
             /\ exec[w].token \in Token \cup {NoToken}
             /\ exec[w].claim \in Stamp \cup {Epoch}
  BY DEF IInv, TypeOK, ExecRecord
<1> QED  BY <1>1, <1>2, <1>3, <1>4

(* The constant records.                                                   *)
LEMMA ConstantsTyped ==
    /\ NoRow \in RowRecord /\ NoDraft \in DraftRecord
    /\ NoNotice \in NoticeRecord /\ IdleExec \in ExecRecord
    /\ IdleExec.token = NoToken /\ IdleExec.holds = FALSE
    /\ 0 \in Revision
<1>1. 0 \in Revision /\ SomebodyElse \in Person
  BY ArticleTranslationsAssumption DEF ArticleTranslationsAssumption, Revision, Person
<1>2. NoRow \in RowRecord /\ NoDraft \in DraftRecord /\ NoNotice \in NoticeRecord
  BY <1>1 DEF NoRow, RowRecord, NoDraft, DraftRecord, NoNotice, NoticeRecord
<1>3. (CHOOSE l \in Lang : TRUE) \in Lang
  BY ArticleTranslationsAssumption DEF ArticleTranslationsAssumption
<1>4. IdleExec \in ExecRecord /\ IdleExec.token = NoToken /\ IdleExec.holds = FALSE
  BY <1>3 DEF IdleExec, ExecRecord
<1> QED  BY <1>1, <1>2, <1>4

(* A row stays true when there are more snapshots.                         *)
LEMMA RowKept ==
    ASSUME NEW r \in RowRecord, NEW s \in Seq(Text), NEW s2 \in Seq(Text),
           RowTrue(r, s), Len(s) <= Len(s2), \A i \in 1..Len(s) : s2[i] = s[i]
    PROVE  RowTrue(r, s2)
<1>1. r.base \in Nat /\ Len(s) \in Nat /\ Len(s2) \in Nat
  BY DEF RowRecord, Revision
<1> QED  BY <1>1 DEF RowTrue

-----------------------------------------------------------------------------
(* Revisions. *)

(* ensureSourceRevision: afterwards the original has a revision with its   *)
(* text, and the revisions there were are the same.                        *)
LEMMA EnsuredKeeps ==
    ASSUME IInv, Ensured(original)
    PROVE  /\ original' \in [text : Text, rev : Revision]
           /\ original'.text = original.text
           /\ snapshot' \in Seq(Text) /\ Len(snapshot') <= MaxRevision
           /\ original'.rev \in 1..Len(snapshot')
           /\ snapshot'[original'.rev] = original.text
           /\ Len(snapshot) <= Len(snapshot')
           /\ \A i \in 1..Len(snapshot) : snapshot'[i] = snapshot[i]
           /\ original.rev # 0 => original' = original
<1>1. CASE original.rev # 0
  BY <1>1, Typed DEF Ensured, IInv, Revisions, Revision, TypeOK
<1>2. CASE original.rev = 0
  <2>1. /\ snapshot' = Append(snapshot, original.text)
        /\ original' = [original EXCEPT !.rev = Len(snapshot) + 1]
        /\ Len(snapshot) < MaxRevision
    BY <1>2 DEF Ensured, NextRevision
  <2>2. original' = [text |-> original.text, rev |-> Len(snapshot) + 1]
    BY <2>1, Typed
  <2>3. Len(snapshot) \in Nat /\ MaxRevision \in Nat
    BY Typed, ArticleTranslationsAssumption DEF ArticleTranslationsAssumption
  <2>4. /\ snapshot' \in Seq(Text) /\ Len(snapshot') = Len(snapshot) + 1
        /\ snapshot'[Len(snapshot) + 1] = original.text
        /\ \A i \in 1..Len(snapshot) : snapshot'[i] = snapshot[i]
    BY <2>1, Typed, AppendHolds
  <2>5. Len(snapshot) + 1 \in Revision
    BY <2>1, <2>3 DEF Revision
  <2> QED  BY <1>2, <2>1, <2>2, <2>3, <2>4, <2>5, Typed
<1> QED  BY <1>1, <1>2

(* The freshness of a version with a baseline that nobody has recorded is  *)
(* unknown, whatever the revision.                                         *)
LEMMA ReviewStates ==
    ASSUME NEW b \in Revision, NEW r \in Revision
    PROVE  /\ ReviewState(b, r) \in Freshness
           /\ b = 0 \/ r = 0 => ReviewState(b, r) = "unknown"
           /\ b # 0 /\ b = r => ReviewState(b, r) = "current"
<1>1. CASE b = 0 \/ r = 0
  BY <1>1 DEF ReviewState, Freshness
<1>2. CASE b # 0 /\ r # 0 /\ b = r
  BY <1>2 DEF ReviewState, Freshness
<1>3. CASE b # 0 /\ r # 0 /\ b # r
  BY <1>3 DEF ReviewState, Freshness
<1> QED  BY <1>1, <1>2, <1>3

-----------------------------------------------------------------------------
(* The public state. *)

(* The public state of typed rows is typed, without placeholders.          *)
LEMMA PublicTyped ==
    ASSUME NEW o \in [text : Text, rev : Revision], NEW c \in [Lang -> RowRecord]
    PROVE  /\ Public(o, c) \in Publication
           /\ \A l \in Lang : ~Visible(c[l]) => Public(o, c).version[l] = NoVersion
<1> DEFINE v(l) == IF Visible(c[l])
                   THEN [kind |-> c[l].kind, text |-> c[l].text,
                         freshness |-> ReviewState(c[l].base, o.rev)]
                   ELSE NoVersion
<1>1. ASSUME NEW l \in Lang  PROVE v(l) \in Version
  <2>1. /\ c[l].kind \in {"none", "llm", "human"} /\ c[l].text \in Text \cup {NoText}
        /\ c[l].base \in Revision /\ o.rev \in Revision
    BY DEF RowRecord
  <2>2. ReviewState(c[l].base, o.rev) \in Freshness
    BY <2>1, ReviewStates
  <2>3. NoVersion \in Version
    BY DEF NoVersion, Version, Freshness
  <2> QED  BY <2>1, <2>2, <2>3 DEF Version
<1>2. Public(o, c) = [text |-> o.text, version |-> [l \in Lang |-> v(l)]]
  BY DEF Public
<1>3. \A l \in Lang : ~Visible(c[l]) => v(l) = NoVersion
  OBVIOUS
<1> HIDE DEF v
<1>4. [l \in Lang |-> v(l)] \in [Lang -> Version] /\ o.text \in Text
  BY <1>1
<1> QED  BY <1>2, <1>3, <1>4 DEF Publication

(* After publishArticleState readers and peers agree with the article.     *)
LEMMA Published ==
    ASSUME IInv, UNCHANGED censored,
           original' \in [text : Text, rev : Revision], content' \in [Lang -> RowRecord],
           Publish(original', content')
    PROVE  PublicAgrees' /\ variant' \in Publication /\ federated' \in Publication
<1>1. /\ Public(original', content') \in Publication
      /\ \A l \in Lang : ~Visible(content'[l])
                         => Public(original', content').version[l] = NoVersion
  BY PublicTyped
<1>2. /\ variant' = Public(original', content')
      /\ federated' = IF censored THEN federated ELSE Public(original', content')
  BY DEF Publish
<1>3. \A l \in Lang : content'[l].placeholder => ~Visible(content'[l])
  BY DEF Visible
<1>4. variant' \in Publication /\ federated' \in Publication
  BY <1>1, <1>2 DEF IInv, TypeOK
<1> QED  BY <1>1, <1>2, <1>3, <1>4 DEF PublicAgrees

(* A row that looks the same to readers.                                   *)
Looks(r, s) ==
    /\ Visible(r) <=> Visible(s)
    /\ Visible(r) => r.kind = s.kind /\ r.text = s.text /\ r.base = s.base

(* Nothing has to be published as long as all rows look the same, and the  *)
(* original, unless this is its first revision.                            *)
LEMMA SamePublic ==
    ASSUME IInv, UNCHANGED <<public, censored>>,
           original' \in [text : Text, rev : Revision], content' \in [Lang -> RowRecord],
           original'.text = original.text,
           original.rev # 0 => original'.rev = original.rev,
           \A l \in Lang : Looks(content'[l], content[l])
    PROVE  PublicAgrees' /\ variant' \in Publication /\ federated' \in Publication
<1>1. \A l \in Lang : ReviewState(content[l].base, original'.rev)
                      = ReviewState(content[l].base, original.rev)
  <2>1. CASE original.rev # 0
    BY <2>1
  <2>2. CASE original.rev = 0
    <3>1. Len(snapshot) = 0
      BY <2>2 DEF IInv, Revisions
    <3>2. \A l \in Lang : content[l].base = 0
      BY <3>1, Typed DEF IInv, Rows, RowTrue, Revision
    <3> QED  BY <2>2, <3>2, Typed, ReviewStates
  <2> QED  BY <2>1, <2>2
<1>2. ASSUME NEW l \in Lang
      PROVE  (IF Visible(content'[l])
              THEN [kind |-> content'[l].kind, text |-> content'[l].text,
                    freshness |-> ReviewState(content'[l].base, original'.rev)]
              ELSE NoVersion)
             = (IF Visible(content[l])
                THEN [kind |-> content[l].kind, text |-> content[l].text,
                      freshness |-> ReviewState(content[l].base, original.rev)]
                ELSE NoVersion)
  <2>1. Looks(content'[l], content[l])
    OBVIOUS
  <2>2. CASE Visible(content[l])
    <3>1. /\ Visible(content'[l]) /\ content'[l].kind = content[l].kind
          /\ content'[l].text = content[l].text /\ content'[l].base = content[l].base
      BY <2>1, <2>2 DEF Looks
    <3> QED  BY <1>1, <2>2, <3>1
  <2>3. CASE ~Visible(content[l])
    BY <2>1, <2>3 DEF Looks
  <2> QED  BY <2>2, <2>3
<1>3. Public(original', content') = Public(original, content)
  BY <1>2, Zenon DEF Public
<1>4. /\ variant' = Public(original', content')
      /\ ~censored' => federated' = variant'
  BY <1>3 DEF IInv, PublicAgrees, public
<1>5. \A l \in Lang : content'[l].placeholder => variant'.version[l] = NoVersion
  BY <1>4, PublicTyped DEF Visible
<1>6. variant' \in Publication /\ federated' \in Publication
  BY DEF IInv, TypeOK, public
<1> QED  BY <1>4, <1>5, <1>6 DEF PublicAgrees

-----------------------------------------------------------------------------
(* The notifications. *)

(* Rows that look the same to the translators: an automatic version is     *)
(* nobody's.                                                               *)
Credits(r, s) ==
    /\ r.kind = "human" <=> s.kind = "human"
    /\ r.kind = "human" => r.translator = s.translator /\ r.base = s.base

(* Then the same languages are affected.                                   *)
LEMMA SameAffected ==
    ASSUME NEW c, NEW c2, NEW d, NEW rev, NEW t,
           \A l \in Lang : Credits(c2[l], c[l])
    PROVE  Affected(t, c2, d, rev) = Affected(t, c, d, rev)
BY DEF Affected, Credits

(* Notifications that are left alone stay true when the same languages     *)
(* are affected, and if this is the first revision there are none.         *)
LEMMA NoticesKept ==
    ASSUME IInv, UNCHANGED <<notice, access>>,
           original.rev # 0 =>
              /\ original'.rev = original.rev
              /\ \A t \in Translator : Affected(t, content', draft', original.rev)
                                       = Affected(t, content, draft, original.rev)
    PROVE  /\ NoticeTrue' /\ notice' \in [Translator -> NoticeRecord]
           /\ original.rev = 0 => \A t \in Translator : notice'[t] = NoNotice
<1>1. notice' \in [Translator -> NoticeRecord]
  BY DEF IInv, TypeOK
<1>2. CASE original.rev = 0
  BY <1>1, <1>2 DEF IInv, Revisions, NoticeTrue
<1>3. CASE original.rev # 0
  BY <1>1, <1>3 DEF IInv, NoticeTrue
<1> QED  BY <1>1, <1>2, <1>3

(* syncTranslationReviewNotifications leaves nothing but the truth.        *)
LEMMA NoticesSynced ==
    ASSUME IInv, UNCHANGED access, NEW c, NEW raising,
           original'.rev \in Revision, original'.rev = 0 => original.rev = 0,
           \A l \in Lang : Credits(content'[l], c[l]),
           notice' = Synced(c, draft', original'.rev, raising)
    PROVE  /\ NoticeTrue' /\ notice' \in [Translator -> NoticeRecord]
           /\ original'.rev = 0 => \A t \in Translator : notice'[t] = NoNotice
<1> DEFINE langs(t) == IF t \in access THEN Affected(t, content', draft', original'.rev)
                       ELSE {}
<1>1. \A t \in Translator :
         notice'[t] = IF langs(t) = {} THEN NoNotice
                      ELSE IF original'.rev = 0 \/ (notice[t] = NoNotice /\ t \notin raising)
                      THEN notice[t]
                      ELSE [langs |-> langs(t), rev |-> original'.rev]
  <2>1. \A t \in Translator : Affected(t, content', draft', original'.rev)
                              = Affected(t, c, draft', original'.rev)
    BY SameAffected
  <2> QED  BY <2>1 DEF Synced
<1>2. \A t \in Translator : langs(t) \subseteq Lang
  BY DEF Affected
<1>3. \A t \in Translator : langs(t) # {}
         => t \in access /\ langs(t) = Affected(t, content', draft', original'.rev)
  OBVIOUS
<1> HIDE DEF langs
<1>4. original'.rev = 0 => \A t \in Translator : notice[t] = NoNotice
  BY DEF IInv, Revisions
<1>5. ASSUME NEW t \in Translator
      PROVE  \/ notice'[t] = NoNotice
             \/ /\ original'.rev # 0 /\ langs(t) # {}
                /\ notice'[t] = [langs |-> langs(t), rev |-> original'.rev]
  BY <1>1, <1>4
<1>6. ASSUME NEW t \in Translator  PROVE notice'[t] \in NoticeRecord
  <2>1. [langs |-> langs(t), rev |-> original'.rev] \in NoticeRecord
    BY <1>2 DEF NoticeRecord
  <2> QED  BY <1>5, <2>1, ConstantsTyped
<1>7. notice' \in [Translator -> NoticeRecord]
  BY <1>6 DEF Synced
<1>8. NoticeTrue'
  BY <1>3, <1>5 DEF NoticeTrue
<1> QED  BY <1>5, <1>7, <1>8

-----------------------------------------------------------------------------
(* Tokens, time stamps and executions. *)

(* Fresh tokens are nobody's.                                              *)
LEMMA FreshOnes ==
    ASSUME IInv, FreshTokens # {}
    PROVE  \A l \in Lang :
              /\ Tokens[l] \in Token
              /\ \A m \in Lang : Tokens[l] # content[m].token
              /\ \A w \in Worker : Tokens[l] # exec[w].token
<1>1. Tokens \in FreshTokens
  BY DEF Tokens
<1>2. Tokens \in [Lang -> Token \ TokensInUse]
  BY <1>1 DEF FreshTokens
<1> QED  BY <1>2 DEF TokensInUse

(* A placeholder with a fresh token.                                       *)
LEMMA PlaceholderTyped ==
    ASSUME IInv, NEW text \in Text, NEW base \in Revision, NEW token \in Token,
           \A m \in Lang : token # content[m].token,
           \A w \in Worker : token # exec[w].token
    PROVE  \A r : r = Placeholder(text, base, token) =>
           /\ r \in RowRecord /\ r.kind = "llm" /\ r.placeholder
           /\ ~r.reviewed /\ r.text = text /\ r.base = base /\ r.token = token
           /\ ~Visible(r)
<1>1. StampsOf(token) = {}
  BY DEF StampsOf
<1>2. Now(token) \in Stamp
  BY <1>1, ArticleTranslationsAssumption DEF ArticleTranslationsAssumption, Now, Time
<1>3. Placeholder(text, base, token)
        = [kind |-> "llm", placeholder |-> TRUE, text |-> text, base |-> base,
           token |-> token, stamp |-> Now(token), translator |-> SomebodyElse,
           reviewed |-> FALSE]
  <2>1. PICK now : now = Now(token)
    OBVIOUS
  <2>2. Placeholder(text, base, token)
          = [NoRow EXCEPT !.kind = "llm", !.placeholder = TRUE, !.text = text,
                          !.base = base, !.token = token, !.stamp = now]
    BY <2>1 DEF Placeholder
  <2> QED  BY <2>1, <2>2 DEF NoRow
<1>4. SomebodyElse \in Person
  BY DEF Person
<1> QED  BY <1>2, <1>3, <1>4 DEF RowRecord, Visible

(* An execution that goes on, or has lost its lease, but has not moved.    *)
GoesOn(d, e) ==
    /\ e.token # NoToken
    /\ d.lang = e.lang /\ d.token = e.token /\ d.claim = e.claim /\ d.text = e.text
    /\ d.holds => e.holds

(* An execution that ends, loses its lease or goes on stays true, if its   *)
(* row keeps its text or has another token, and, when it holds the lease,  *)
(* its claim and its task.                                                 *)
LEMMA ExecutionKept ==
    ASSUME IInv, NEW w \in Worker,
           exec'[w] = IdleExec \/ GoesOn(exec'[w], exec[w]),
           exec'[w].token # NoToken =>
              LET l == exec[w].lang IN
              /\ content'[l].token = exec[w].token =>
                    /\ content[l].token = exec[w].token
                    /\ content'[l].text = content[l].text
                    /\ exec'[w].holds => content'[l].stamp = content[l].stamp
              /\ exec'[w].holds => task'[l] # <<>> /\ Head(task'[l]) = exec[w].token
    PROVE  ExecTrue(exec'[w], content'[exec'[w].lang], task'[exec'[w].lang])
<1>1. CASE exec'[w] = IdleExec
  BY <1>1, ConstantsTyped DEF ExecTrue
<1>2. CASE GoesOn(exec'[w], exec[w])
  <2>1. /\ exec[w].token # NoToken /\ exec'[w].token = exec[w].token
        /\ exec'[w].lang = exec[w].lang /\ exec'[w].claim = exec[w].claim
        /\ exec'[w].text = exec[w].text /\ (exec'[w].holds => exec[w].holds)
    BY <1>2 DEF GoesOn
  <2>2. ExecTrue(exec[w], content[exec[w].lang], task[exec[w].lang])
    BY DEF IInv, Executions
  <2> QED  BY <2>1, <2>2 DEF ExecTrue
<1> QED  BY <1>1, <1>2

(* Two of them stay apart.                                                 *)
LEMMA ApartKept ==
    ASSUME IInv, NEW v \in Worker, NEW w \in Worker, v # w,
           exec'[v] = IdleExec \/ GoesOn(exec'[v], exec[v]),
           exec'[w] = IdleExec \/ GoesOn(exec'[w], exec[w])
    PROVE  Apart(exec'[v], exec'[w])
<1>1. Apart(exec[v], exec[w])
  BY DEF IInv, Fences
<1>2. exec'[v].token # NoToken => GoesOn(exec'[v], exec[v])
  BY ConstantsTyped
<1>3. exec'[w].token # NoToken => GoesOn(exec'[w], exec[w])
  BY ConstantsTyped
<1> QED  BY <1>1, <1>2, <1>3 DEF Apart, GoesOn

(* So it is with all.                                                      *)
LEMMA ExecutionsKept ==
    ASSUME IInv,
           \A w \in Worker : exec'[w] = IdleExec \/ GoesOn(exec'[w], exec[w]),
           \A w \in Worker : exec'[w].token # NoToken =>
              LET l == exec[w].lang IN
              /\ content'[l].token = exec[w].token =>
                    /\ content[l].token = exec[w].token
                    /\ content'[l].text = content[l].text
                    /\ exec'[w].holds => content'[l].stamp = content[l].stamp
              /\ exec'[w].holds => task'[l] # <<>> /\ Head(task'[l]) = exec[w].token
    PROVE  Executions' /\ Fences'
<1>1. \A w \in Worker : ExecTrue(exec'[w], content'[exec'[w].lang], task'[exec'[w].lang])
  BY ExecutionKept
<1>2. \A v, w \in Worker : v # w => Apart(exec'[v], exec'[w])
  BY ApartKept
<1> QED  BY <1>1, <1>2 DEF Executions, Fences

(* Nothing happens to the executions: when rows keep what concerns them,   *)
(* or have tokens of no execution, and tasks are only added.               *)
LEMMA ExecutionsSame ==
    ASSUME IInv, UNCHANGED exec,
           \A l \in Lang :
              \/ /\ content'[l].token = content[l].token
                 /\ content'[l].text = content[l].text
                 /\ content'[l].stamp = content[l].stamp
              \/ content'[l].token = NoToken
              \/ \A w \in Worker : content'[l].token # exec[w].token,
           \A l \in Lang :
              task[l] # <<>> => task'[l] # <<>> /\ Head(task'[l]) = Head(task[l])
    PROVE  Executions' /\ Fences'
<1>1. \A w \in Worker : exec'[w] = IdleExec \/ GoesOn(exec'[w], exec[w])
  BY DEF IInv, Executions, ExecTrue, GoesOn
<1>2. ASSUME NEW w \in Worker, exec[w].token # NoToken
      PROVE  LET l == exec[w].lang IN
             /\ content'[l].token = exec[w].token =>
                   /\ content[l].token = exec[w].token
                   /\ content'[l].text = content[l].text
                   /\ exec[w].holds => content'[l].stamp = content[l].stamp
             /\ exec[w].holds => task'[l] # <<>> /\ Head(task'[l]) = exec[w].token
  <2>1. exec[w].lang \in Lang
    BY Typed
  <2>2. exec[w].holds => /\ task[exec[w].lang] # <<>>
                         /\ Head(task[exec[w].lang]) = exec[w].token
    BY <1>2 DEF IInv, Executions, ExecTrue
  <2> QED  BY <1>2, <2>1, <2>2
<1> QED  BY <1>1, <1>2, ExecutionsKept

-----------------------------------------------------------------------------
(* The author. *)

(* An edit of the original.                                                *)
LEMMA UpdateArticleIInv ==
    ASSUME IInv, NEW text \in Text, NEW allow \in BOOLEAN, NEW editor \in Person,
           UpdateArticle(text, allow, editor)
    PROVE  IInv'
<1> DEFINE changed == text # original.text
           restarts == ~censored /\ allow /\ BodyOf[text] # BodyOf[original.text]
           o == IF changed THEN [text |-> text, rev |-> NextRevision] ELSE original
<1>1. /\ changed => Len(snapshot) < MaxRevision
      /\ original' = o
      /\ snapshot' = IF changed THEN Append(snapshot, text) ELSE snapshot
      /\ allowed' = allow
      /\ notice' = IF changed THEN Synced(content, draft, o.rev, Translator \ {editor})
                   ELSE notice
      /\ IF restarts
         THEN /\ FreshTokens # {}
              /\ content' = Restarted(text, o.rev, Tokens)
              /\ task' = [l \in Lang |-> IF content'[l] = content[l] THEN task[l]
                                         ELSE Append(task[l], content'[l].token)]
              /\ abandoned' = {l \in abandoned : ~Automatic(l)}
         ELSE UNCHANGED <<content, task, abandoned>>
      /\ Publish(o, content')
      /\ UNCHANGED <<censored, draft, access, exec>>
  BY DEF UpdateArticle
<1>2. /\ original' \in [text : Text, rev : Revision] /\ original'.text = text
      /\ snapshot' \in Seq(Text) /\ Len(snapshot') <= MaxRevision
      /\ Len(snapshot) <= Len(snapshot')
      /\ \A i \in 1..Len(snapshot) : snapshot'[i] = snapshot[i]
      /\ changed => /\ original'.rev \in 1..Len(snapshot')
                    /\ snapshot'[original'.rev] = text
      /\ original'.rev = 0 => original.rev = 0
  <2>1. CASE changed
    <3>1. Len(snapshot) \in Nat /\ MaxRevision \in Nat /\ Len(snapshot) < MaxRevision
      BY <1>1, <2>1, Typed, ArticleTranslationsAssumption
         DEF ArticleTranslationsAssumption
    <3>2. original' = [text |-> text, rev |-> Len(snapshot) + 1]
      BY <1>1, <2>1 DEF NextRevision
    <3>3. Len(snapshot) + 1 \in Revision
      BY <3>1 DEF Revision
    <3>4. /\ snapshot' \in Seq(Text) /\ Len(snapshot') = Len(snapshot) + 1
          /\ snapshot'[Len(snapshot) + 1] = text
          /\ \A i \in 1..Len(snapshot) : snapshot'[i] = snapshot[i]
      BY <1>1, <2>1, Typed, AppendHolds
    <3> QED  BY <2>1, <3>1, <3>2, <3>3, <3>4
  <2>2. CASE ~changed
    BY <1>1, <2>2, Typed
  <2> QED  BY <2>1, <2>2
<1>3. restarts => changed
  OBVIOUS
<1>4. o.rev = original'.rev /\ o.rev \in Revision /\ o = original'
  BY <1>1, <1>2
<1>5. ASSUME NEW l \in Lang, restarts, Automatic(l)
      PROVE  /\ content'[l] \in RowRecord /\ content'[l].kind = "llm"
             /\ content'[l].placeholder /\ ~content'[l].reviewed
             /\ content'[l].text = text /\ content'[l].base = original'.rev
             /\ content'[l].token = Tokens[l] /\ Tokens[l] \in Token
             /\ \A w \in Worker : content'[l].token # exec[w].token
             /\ task'[l] = Append(task[l], Tokens[l])
             /\ task'[l] \in Seq(Token)
  <2>1. content'[l] = Placeholder(text, o.rev, Tokens[l])
    BY <1>1, <1>5 DEF Restarted
  <2>2. /\ Tokens[l] \in Token
        /\ \A m \in Lang : Tokens[l] # content[m].token
        /\ \A w \in Worker : Tokens[l] # exec[w].token
    BY <1>1, <1>5, FreshOnes
  <2> HIDE DEF o, changed, restarts
  <2>3. /\ content'[l] \in RowRecord /\ content'[l].kind = "llm"
        /\ content'[l].placeholder /\ ~content'[l].reviewed
        /\ content'[l].text = text /\ content'[l].base = original'.rev
        /\ content'[l].token = Tokens[l]
    BY <1>4, <2>1, <2>2, PlaceholderTyped
  <2>4. task'[l] = Append(task[l], Tokens[l])
    BY <1>1, <1>5, <2>2, <2>3
  <2>5. task'[l] \in Seq(Token)
    BY <2>2, <2>4, Typed, AppendHolds
  <2> QED  BY <2>2, <2>3, <2>4, <2>5
<1>6. ASSUME NEW l \in Lang, ~(restarts /\ Automatic(l))
      PROVE  /\ content'[l] = content[l] /\ task'[l] = task[l]
             /\ l \in abandoned => l \in abandoned'
  BY <1>1, <1>6 DEF Restarted
<1> HIDE DEF o, changed, restarts
<1>7. content' \in [Lang -> RowRecord] /\ task' \in [Lang -> Seq(Token)]
  <2>1. /\ \A l \in Lang : content'[l] \in RowRecord /\ task'[l] \in Seq(Token)
    BY <1>5, <1>6, Typed
  <2>2. content' = [l \in Lang |-> content'[l]] /\ task' = [l \in Lang |-> task'[l]]
    BY <1>1 DEF Restarted, IInv, TypeOK
  <2> QED  BY <2>1, <2>2
<1>8. PublicAgrees' /\ variant' \in Publication /\ federated' \in Publication
  BY <1>1, <1>2, <1>4, <1>7, Published
<1>9. Rows' /\ Drafts'
  <2>1. ASSUME NEW l \in Lang  PROVE RowTrue(content'[l], snapshot')
    <3>1. CASE restarts /\ Automatic(l)
      <4>1. original'.rev \in 1..Len(snapshot') /\ snapshot'[original'.rev] = text
        BY <1>2, <1>3, <3>1
      <4>2. content'[l].kind = "llm" /\ ~content'[l].reviewed
        BY <1>5, <3>1
      <4>3. content'[l].base <= Len(snapshot') /\ content'[l].text = snapshot'[content'[l].base]
        BY <1>5, <3>1, <4>1
      <4> QED  BY <4>2, <4>3, Zenon DEF RowTrue
    <3>2. CASE ~(restarts /\ Automatic(l))
      BY <1>2, <1>6, <3>2, Typed, RowKept DEF IInv, Rows
    <3> QED  BY <3>1, <3>2
  <2>2. Drafts'
    <3>1. draft' = draft /\ Len(snapshot) \in Nat /\ Len(snapshot') \in Nat
      BY <1>1, <1>2, Typed
    <3> QED  BY <1>2, <3>1, Typed DEF IInv, Drafts, Revision
  <2> QED  BY <2>1, <2>2 DEF Rows
<1>10. /\ NoticeTrue' /\ notice' \in [Translator -> NoticeRecord]
       /\ original'.rev = 0 => \A t \in Translator : notice'[t] = NoNotice
  <2>1. \A l \in Lang : Credits(content'[l], content[l])
    BY <1>5, <1>6 DEF Credits, Automatic
  <2>2. CASE changed
    <3>1. notice' = Synced(content, draft', original'.rev, Translator \ {editor})
      BY <1>1, <1>4, <2>2
    <3> QED  BY <1>1, <1>2, <2>1, <3>1, NoticesSynced
  <2>3. CASE ~changed
    <3>1. \A t \in Translator : Affected(t, content', draft', original.rev)
                                = Affected(t, content, draft, original.rev)
      BY <1>1, <2>1, SameAffected
    <3>2. original' = original /\ notice' = notice /\ access' = access
      BY <1>1, <2>3 DEF o
    <3> QED  BY <3>1, <3>2, NoticesKept
  <2> QED  BY <2>2, <2>3
<1>11. Revisions'
  <2>1. CASE changed
    BY <1>2, <2>1 DEF Revisions
  <2>2. CASE ~changed
    <3>1. original' = original /\ snapshot' = snapshot
      BY <1>1, <2>2 DEF o
    <3> QED  BY <1>10, <3>1 DEF IInv, Revisions
  <2> QED  BY <2>1, <2>2
<1>12. PlaceholderBacked'
  <2> SUFFICES ASSUME NEW l \in Lang, content'[l].placeholder
               PROVE  content'[l].token \in Range(task'[l]) \/ l \in abandoned'
    BY DEF PlaceholderBacked
  <2>1. CASE restarts /\ Automatic(l)
    <3>1. /\ content'[l].token = Tokens[l] /\ Tokens[l] \in Token
          /\ task'[l] = Append(task[l], Tokens[l])
      BY <1>5, <2>1
    <3> QED  BY <3>1, Typed, AppendHolds
  <2>2. CASE ~(restarts /\ Automatic(l))
    BY <1>6, <2>2 DEF IInv, PlaceholderBacked
  <2> QED  BY <2>1, <2>2
<1>13. Executions' /\ Fences'
  <2>1. ASSUME NEW l \in Lang, task[l] # <<>>
        PROVE  task'[l] # <<>> /\ Head(task'[l]) = Head(task[l])
    <3>1. CASE restarts /\ Automatic(l)
      <4>1. task'[l] = Append(task[l], Tokens[l]) /\ Tokens[l] \in Token
        BY <1>5, <3>1
      <4> QED  BY <2>1, <4>1, Typed, AppendHolds
    <3>2. CASE ~(restarts /\ Automatic(l))
      BY <1>6, <2>1, <3>2
    <3> QED  BY <3>1, <3>2
  <2>2. ASSUME NEW l \in Lang
        PROVE  \/ /\ content'[l].token = content[l].token
                  /\ content'[l].text = content[l].text
                  /\ content'[l].stamp = content[l].stamp
               \/ content'[l].token = NoToken
               \/ \A w \in Worker : content'[l].token # exec[w].token
    BY <1>5, <1>6
  <2> QED  BY <1>1, <2>1, <2>2, ExecutionsSame
<1>14. TypeOK'
  <2>1. \A l \in Lang : content'[l].placeholder <=> content'[l].token # NoToken
    <3>1. NoToken \notin Token
      BY ArticleTranslationsAssumption DEF ArticleTranslationsAssumption
    <3>2. ASSUME NEW l \in Lang, restarts /\ Automatic(l)
          PROVE  content'[l].placeholder /\ content'[l].token # NoToken
      BY <1>5, <3>1, <3>2
    <3>3. ASSUME NEW l \in Lang, ~(restarts /\ Automatic(l))
          PROVE  content'[l].placeholder <=> content'[l].token # NoToken
      <4>1. content'[l] = content[l]
        BY <1>6, <3>3
      <4> QED  BY <4>1 DEF IInv, TypeOK
    <3> QED  BY <3>2, <3>3
  <2>2. abandoned' \subseteq Lang
    BY <1>1 DEF IInv, TypeOK
  <2> QED  BY <1>1, <1>2, <1>7, <1>8, <1>10, <2>1, <2>2 DEF IInv, TypeOK
<1> QED  BY <1>8, <1>9, <1>10, <1>11, <1>12, <1>13, <1>14 DEF IInv

-----------------------------------------------------------------------------
(* Placeholders and their tasks. *)

(* One row changes that readers do not see, before or after, and that is   *)
(* nobody's translation; the original may get its first revision.          *)
LEMMA UnseenChange ==
    ASSUME IInv, NEW l \in Lang, NEW r \in RowRecord,
           content' = [content EXCEPT ![l] = r],
           UNCHANGED <<allowed, censored, draft, notice, access, public>>,
           Ensured(original) \/ UNCHANGED <<original, snapshot>>,
           ~Visible(content[l]), ~Visible(r), r.kind # "human",
           RowTrue(r, snapshot'), r.placeholder <=> r.token # NoToken
    PROVE  /\ PublicAgrees' /\ Rows' /\ Drafts' /\ Revisions' /\ NoticeTrue'
           /\ /\ task' \in [Lang -> Seq(Token)] /\ exec' \in [Worker -> ExecRecord]
              /\ abandoned' \subseteq Lang
              => TypeOK'
<1>1. /\ original' \in [text : Text, rev : Revision] /\ original'.text = original.text
      /\ snapshot' \in Seq(Text) /\ Len(snapshot') <= MaxRevision
      /\ Len(snapshot) <= Len(snapshot')
      /\ \A i \in 1..Len(snapshot) : snapshot'[i] = snapshot[i]
      /\ original.rev # 0 => original'.rev = original.rev
  <2>1. CASE Ensured(original)
    BY <2>1, EnsuredKeeps
  <2>2. CASE UNCHANGED <<original, snapshot>>
    BY <2>2, Typed DEF IInv, TypeOK
  <2> QED  BY <2>1, <2>2
<1>2. /\ content' \in [Lang -> RowRecord] /\ content'[l] = r
      /\ \A m \in Lang \ {l} : content'[m] = content[m]
  BY DEF IInv, TypeOK
<1>3. PublicAgrees' /\ variant' \in Publication /\ federated' \in Publication
  <2>1. ASSUME NEW m \in Lang  PROVE Looks(content'[m], content[m])
    BY <1>2 DEF Looks
  <2> QED  BY <1>1, <1>2, <2>1, SamePublic
<1>4. Rows'
  <2>1. ASSUME NEW m \in Lang \ {l}  PROVE RowTrue(content[m], snapshot')
    BY <1>1, Typed, RowKept DEF IInv, Rows
  <2> QED  BY <1>2, <2>1 DEF Rows
<1>5. Drafts'
  <2>1. Len(snapshot) \in Nat /\ Len(snapshot') \in Nat
    BY <1>1, Typed
  <2> QED  BY <1>1, <2>1, Typed DEF IInv, Drafts, Revision
<1>6. /\ NoticeTrue' /\ notice' \in [Translator -> NoticeRecord]
      /\ original.rev = 0 => \A t \in Translator : notice'[t] = NoNotice
  <2>1. content[l].kind # "human"
    BY DEF Visible, IInv, Rows, RowTrue
  <2>2. \A m \in Lang : Credits(content'[m], content[m])
    BY <1>2, <2>1 DEF Credits
  <2>3. \A t \in Translator : Affected(t, content', draft', original.rev)
                              = Affected(t, content, draft, original.rev)
    <3>1. \A t \in Translator : Affected(t, content', draft, original.rev)
                                = Affected(t, content, draft, original.rev)
      BY <2>2 DEF Affected, Credits
    <3>2. draft' = draft
      OBVIOUS
    <3> QED  BY <3>1, <3>2
  <2> QED  BY <1>1, <2>3, NoticesKept
<1>7. Revisions'
  <2>1. CASE Ensured(original)
    BY <2>1, EnsuredKeeps DEF Revisions
  <2>2. CASE UNCHANGED <<original, snapshot>>
    BY <1>6, <2>2 DEF IInv, Revisions
  <2> QED  BY <2>1, <2>2
<1>8. \A m \in Lang : content'[m].placeholder <=> content'[m].token # NoToken
  <2>1. ASSUME NEW m \in Lang \ {l}
        PROVE  content[m].placeholder <=> content[m].token # NoToken
    BY DEF IInv, TypeOK
  <2> QED  BY <1>2, <2>1
<1>9. ASSUME task' \in [Lang -> Seq(Token)], exec' \in [Worker -> ExecRecord],
             abandoned' \subseteq Lang
      PROVE  TypeOK'
  BY <1>1, <1>2, <1>3, <1>6, <1>8, <1>9 DEF IInv, TypeOK
<1> QED  BY <1>3, <1>4, <1>5, <1>6, <1>7, <1>9

(* A row without a version, or with a placeholder, is not seen.            *)
LEMMA UnseenRows ==
    /\ ~Visible(NoRow) /\ NoRow.kind # "human" /\ ~NoRow.placeholder
    /\ NoRow.token = NoToken /\ NoRow.base = 0
    /\ \A s \in Seq(Text) : RowTrue(NoRow, s)
<1>1. /\ NoRow.kind = "none" /\ ~NoRow.placeholder
      /\ NoRow.token = NoToken /\ NoRow.base = 0
  BY DEF NoRow
<1>2. ASSUME NEW s \in Seq(Text)  PROVE RowTrue(NoRow, s)
  <2>1. 0 <= Len(s)
    OBVIOUS
  <2> QED  BY <1>1, <2>1 DEF RowTrue
<1> QED  BY <1>1, <1>2 DEF Visible

(* One task more, and a row whose token it has.                            *)
LEMMA TaskAdded ==
    ASSUME IInv, NEW l \in Lang, NEW q \in Seq(Token), NEW token \in Token,
           task' = [task EXCEPT ![l] = Append(q, token)]
    PROVE  /\ task' \in [Lang -> Seq(Token)]
           /\ token \in Range(task'[l]) /\ task'[l] # <<>>
           /\ Range(q) \subseteq Range(task'[l])
           /\ q # <<>> => Head(task'[l]) = Head(q)
           /\ \A m \in Lang \ {l} : task'[m] = task[m]
<1>1. /\ Append(q, token) \in Seq(Token) /\ Append(q, token) # <<>>
      /\ token \in Range(Append(q, token)) /\ Range(q) \subseteq Range(Append(q, token))
      /\ q # <<>> => Head(Append(q, token)) = Head(q)
  BY AppendHolds
<1> QED  BY <1>1 DEF IInv, TypeOK

(* The revision whose text the reader passed on, if there is one.          *)
LEMMA MatchingRevisions ==
    ASSUME IInv, NEW text
    PROVE  /\ MatchingRevision(text) \in Revision
           /\ MatchingRevision(text) <= Len(snapshot)
           /\ MatchingRevision(text) # 0 => text = snapshot[MatchingRevision(text)]
<1>1. original.rev \in Revision /\ 0 \in Revision /\ Len(snapshot) \in Nat
  BY Typed, ConstantsTyped
<1>2. original.rev # 0 => original.rev <= Len(snapshot)
  BY DEF IInv, Revisions
<1> QED  BY <1>1, <1>2 DEF MatchingRevision

(* A reader starts a translation, or restarts one that seems abandoned.    *)
LEMMA StartIInv ==
    ASSUME IInv, NEW l \in Lang, NEW text \in Text,
           StartArticleContentTranslation(l, text)
    PROVE  IInv'
<1> DEFINE r == Placeholder(text, MatchingRevision(text), Tokens[l])
<1>1. /\ content[l].kind = "none" \/ content[l].placeholder
      /\ FreshTokens # {}
      /\ content' = [content EXCEPT ![l] = r]
      /\ task' = [task EXCEPT ![l] = Append(task[l], Tokens[l])]
      /\ abandoned' = abandoned \ {l}
      /\ UNCHANGED <<article, draft, notice, access, exec, public>>
  BY DEF StartArticleContentTranslation, Reclaimable
<1>2. /\ Tokens[l] \in Token
      /\ \A m \in Lang : Tokens[l] # content[m].token
      /\ \A w \in Worker : Tokens[l] # exec[w].token
  BY <1>1, FreshOnes
<1>3. /\ r \in RowRecord /\ r.kind = "llm" /\ r.placeholder
      /\ ~r.reviewed /\ r.text = text /\ r.base = MatchingRevision(text)
      /\ r.token = Tokens[l] /\ ~Visible(r)
  BY <1>2, MatchingRevisions, PlaceholderTyped
<1> HIDE DEF r
<1>4. RowTrue(r, snapshot)
  <2>1. r.base <= Len(snapshot) /\ (r.base # 0 => r.text = snapshot[r.base])
    BY <1>3, MatchingRevisions
  <2> QED  BY <1>3, <2>1, Zenon DEF RowTrue
<1>5. ~Visible(content[l])
  BY <1>1 DEF Visible
<1>6. /\ UNCHANGED <<allowed, censored, draft, notice, access, public>>
      /\ UNCHANGED <<original, snapshot>> /\ UNCHANGED exec
  BY <1>1 DEF article
<1>7. r.placeholder <=> r.token # NoToken
  <2>1. NoToken \notin Token
    BY ArticleTranslationsAssumption DEF ArticleTranslationsAssumption
  <2> QED  BY <1>2, <1>3, <2>1
<1>8. /\ PublicAgrees' /\ Rows' /\ Drafts' /\ Revisions' /\ NoticeTrue'
      /\ /\ task' \in [Lang -> Seq(Token)] /\ exec' \in [Worker -> ExecRecord]
         /\ abandoned' \subseteq Lang
         => TypeOK'
  <2>1. r.kind # "human" /\ RowTrue(r, snapshot')
    BY <1>3, <1>4, <1>6
  <2> QED  BY <1>1, <1>3, <1>5, <1>6, <1>7, <2>1, UnseenChange
<1>9. /\ task' \in [Lang -> Seq(Token)]
      /\ Tokens[l] \in Range(task'[l]) /\ task'[l] # <<>>
      /\ task[l] # <<>> => Head(task'[l]) = Head(task[l])
      /\ \A m \in Lang \ {l} : task'[m] = task[m]
  BY <1>1, <1>2, Typed, TaskAdded
<1>10. /\ content'[l] = r /\ \A m \in Lang \ {l} : content'[m] = content[m]
  BY <1>1 DEF IInv, TypeOK
<1>11. TypeOK'
  BY <1>1, <1>6, <1>8, <1>9 DEF IInv, TypeOK
<1>12. PlaceholderBacked'
  <2> SUFFICES ASSUME NEW m \in Lang, content'[m].placeholder
               PROVE  content'[m].token \in Range(task'[m]) \/ m \in abandoned'
    BY DEF PlaceholderBacked
  <2>1. CASE m = l
    BY <1>3, <1>9, <1>10, <2>1
  <2>2. CASE m # l
    BY <1>1, <1>9, <1>10, <2>2 DEF IInv, PlaceholderBacked
  <2> QED  BY <2>1, <2>2
<1>13. Executions' /\ Fences'
  <2>1. \A m \in Lang : task[m] # <<>> => task'[m] # <<>> /\ Head(task'[m]) = Head(task[m])
    BY <1>9
  <2>2. \A m \in Lang :
          \/ /\ content'[m].token = content[m].token
             /\ content'[m].text = content[m].text
             /\ content'[m].stamp = content[m].stamp
          \/ content'[m].token = NoToken
          \/ \A w \in Worker : content'[m].token # exec[w].token
    BY <1>2, <1>3, <1>10
  <2> QED  BY <1>6, <2>1, <2>2, ExecutionsSame
<1> QED  BY <1>8, <1>11, <1>12, <1>13 DEF IInv

(* The attempts of the first task of a language are exhausted: nobody      *)
(* holds its lease.                                                        *)
LEMMA TaskDiesIInv ==
    ASSUME IInv, NEW l \in Lang, TaskDies(l)
    PROVE  IInv'
<1>1. /\ task[l] # <<>>
      /\ \A w \in Worker : ~(exec[w].token = Head(task[l]) /\ exec[w].holds)
      /\ task' = [task EXCEPT ![l] = Tail(task[l])]
      /\ abandoned' = IF content[l].token = Head(task[l]) THEN abandoned \cup {l}
                      ELSE abandoned
      /\ UNCHANGED <<article, content, draft, notice, access, exec, public>>
  BY DEF TaskDies
<1>2. /\ UNCHANGED <<original, snapshot, allowed, censored, content, draft, notice,
                     access, exec, variant, federated>>
  BY <1>1 DEF article, public
<1>3. /\ Head(task[l]) \in Token /\ Tail(task[l]) \in Seq(Token)
      /\ \A x \in Range(task[l]) : x = Head(task[l]) \/ x \in Range(Tail(task[l]))
  BY <1>1, Typed, TailHolds
<1>4. /\ task' \in [Lang -> Seq(Token)] /\ task'[l] = Tail(task[l])
      /\ \A m \in Lang \ {l} : task'[m] = task[m]
  BY <1>1, <1>3 DEF IInv, TypeOK
<1>5. abandoned' \subseteq Lang /\ abandoned \subseteq abandoned'
  BY <1>1 DEF IInv, TypeOK
<1>6. TypeOK'
  BY <1>2, <1>4, <1>5 DEF IInv, TypeOK
<1>7. PublicAgrees' /\ Rows' /\ Drafts' /\ Revisions'
  BY <1>2 DEF IInv, PublicAgrees, Rows, Drafts, Revisions, Public
<1>8. NoticeTrue'
  BY <1>2 DEF IInv, NoticeTrue, Affected
<1>9. PlaceholderBacked'
  <2> SUFFICES ASSUME NEW m \in Lang, content[m].placeholder
               PROVE  content[m].token \in Range(task'[m]) \/ m \in abandoned'
    BY <1>2 DEF PlaceholderBacked
  <2>1. content[m].token \in Range(task[m]) \/ m \in abandoned
    BY DEF IInv, PlaceholderBacked
  <2>2. CASE m = l
    BY <1>1, <1>3, <1>4, <1>5, <2>1, <2>2
  <2>3. CASE m # l
    BY <1>4, <1>5, <2>1, <2>3
  <2> QED  BY <2>2, <2>3
<1>10. Executions' /\ Fences'
  <2>1. \A w \in Worker : exec'[w] = IdleExec \/ GoesOn(exec'[w], exec[w])
    BY <1>2 DEF IInv, Executions, ExecTrue, GoesOn
  <2>2. ASSUME NEW w \in Worker, exec[w].token # NoToken, exec[w].holds
        PROVE  task'[exec[w].lang] # <<>> /\ Head(task'[exec[w].lang]) = exec[w].token
    <3>1. /\ task[exec[w].lang] # <<>> /\ Head(task[exec[w].lang]) = exec[w].token
          /\ exec[w].lang \in Lang
      BY <2>2, Typed DEF IInv, Executions, ExecTrue
    <3> QED  BY <1>1, <1>4, <2>2, <3>1
  <2> QED  BY <1>2, <2>1, <2>2, ExecutionsKept
<1> QED  BY <1>6, <1>7, <1>8, <1>9, <1>10 DEF IInv

-----------------------------------------------------------------------------
(* People. *)

(* Whatever people do to published versions and drafts reconciles the      *)
(* notifications, and what readers can see of it is published.  A row a    *)
(* person has changed is no placeholder.                                   *)
LEMMA ReviewedIInv ==
    ASSUME IInv, UNCHANGED <<article, access, jobs>>,
           content' \in [Lang -> RowRecord], draft' \in [Lang -> DraftRecord],
           \A l \in Lang :
              \/ content'[l] = content[l]
              \/ /\ RowTrue(content'[l], snapshot)
                 /\ ~content'[l].placeholder /\ content'[l].token = NoToken,
           \A l \in Lang : draft'[l].base <= Len(snapshot),
           Reconcile(content', draft'),
           \/ Publish(original, content')
           \/ UNCHANGED public /\ \A l \in Lang : Looks(content'[l], content[l])
    PROVE  IInv'
<1>1. UNCHANGED <<original, snapshot, allowed, censored, access, task, exec, abandoned>>
  BY DEF article, jobs
<1>2. original' \in [text : Text, rev : Revision]
  BY <1>1 DEF IInv, TypeOK
<1>3. PublicAgrees' /\ variant' \in Publication /\ federated' \in Publication
  <2>1. CASE Publish(original, content')
    <3>1. Publish(original', content')
      BY <1>1, <2>1
    <3> QED  BY <1>1, <1>2, <3>1, Published
  <2>2. CASE UNCHANGED public /\ \A l \in Lang : Looks(content'[l], content[l])
    BY <1>1, <1>2, <2>2, SamePublic
  <2> QED  BY <2>1, <2>2
<1>4. Rows' /\ Drafts'
  BY <1>1 DEF IInv, Rows, Drafts
<1>5. /\ NoticeTrue' /\ notice' \in [Translator -> NoticeRecord]
      /\ original'.rev = 0 => \A t \in Translator : notice'[t] = NoNotice
  <2>1. notice' = Synced(content', draft', original'.rev, {})
    BY <1>1 DEF Reconcile
  <2>2. \A l \in Lang : Credits(content'[l], content'[l])
    BY DEF Credits
  <2>3. original'.rev \in Revision /\ (original'.rev = 0 => original.rev = 0)
    BY <1>1, Typed
  <2> QED  BY <1>1, <2>1, <2>2, <2>3, NoticesSynced
<1>6. Revisions'
  BY <1>1, <1>5 DEF IInv, Revisions
<1>7. ASSUME NEW l \in Lang, content'[l] # content[l]
      PROVE  ~content'[l].placeholder /\ content'[l].token = NoToken
  BY <1>7
<1>8. \A l \in Lang : content'[l].placeholder <=> content'[l].token # NoToken
  <2>1. ASSUME NEW l \in Lang, content'[l] = content[l]
        PROVE  content'[l].placeholder <=> content'[l].token # NoToken
    BY <2>1 DEF IInv, TypeOK
  <2> QED  BY <1>7, <2>1
<1>9. TypeOK'
  BY <1>1, <1>2, <1>3, <1>5, <1>8 DEF IInv, TypeOK
<1>10. PlaceholderBacked'
  <2> SUFFICES ASSUME NEW l \in Lang, content'[l].placeholder
               PROVE  content'[l].token \in Range(task[l]) \/ l \in abandoned
    BY <1>1 DEF PlaceholderBacked
  <2>1. content'[l] = content[l]
    BY <1>7
  <2> QED  BY <2>1 DEF IInv, PlaceholderBacked
<1>11. Executions' /\ Fences'
  <2>1. \A l \in Lang :
          \/ /\ content'[l].token = content[l].token
             /\ content'[l].text = content[l].text
             /\ content'[l].stamp = content[l].stamp
          \/ content'[l].token = NoToken
          \/ \A w \in Worker : content'[l].token # exec[w].token
    BY <1>7
  <2> QED  BY <1>1, <2>1, ExecutionsSame
<1> QED  BY <1>3, <1>4, <1>5, <1>6, <1>9, <1>10, <1>11 DEF IInv

(* A draft begins current, and may make the original's first revision.     *)
LEMMA CreateDraftIInv ==
    ASSUME IInv, NEW l \in Lang, NEW p \in Person, CreateDraft(l, p)
    PROVE  IInv'
<1> DEFINE d == [exists |-> TRUE, base |-> original'.rev, translator |-> p]
<1>1. /\ ~draft[l].exists /\ Ensured(original)
      /\ draft' = [draft EXCEPT ![l] = d]
      /\ UNCHANGED <<allowed, censored, content, notice, access, jobs, public>>
  BY DEF CreateDraft
<1>2. /\ original' \in [text : Text, rev : Revision] /\ original'.text = original.text
      /\ snapshot' \in Seq(Text) /\ Len(snapshot') <= MaxRevision
      /\ original'.rev \in 1..Len(snapshot')
      /\ snapshot'[original'.rev] = original.text
      /\ Len(snapshot) <= Len(snapshot')
      /\ \A i \in 1..Len(snapshot) : snapshot'[i] = snapshot[i]
      /\ original.rev # 0 => original' = original
  BY <1>1, EnsuredKeeps
<1>3. original'.rev \in Revision /\ original'.rev # 0
  BY <1>2
<1>4. d \in DraftRecord /\ d.base = original'.rev
  BY <1>3 DEF DraftRecord
<1> HIDE DEF d
<1>5. /\ draft' \in [Lang -> DraftRecord] /\ draft'[l] = d
      /\ \A m \in Lang \ {l} : draft'[m] = draft[m]
  BY <1>1, <1>4 DEF IInv, TypeOK
<1>6. content' = content /\ UNCHANGED <<task, exec, abandoned>>
  BY <1>1 DEF jobs
<1>7. PublicAgrees' /\ variant' \in Publication /\ federated' \in Publication
  <2>1. \A m \in Lang : Looks(content'[m], content[m])
    BY <1>6 DEF Looks
  <2>2. content' \in [Lang -> RowRecord] /\ UNCHANGED <<public, censored>>
    BY <1>1, <1>6 DEF IInv, TypeOK
  <2> QED  BY <1>2, <2>1, <2>2, SamePublic
<1>8. Rows'
  BY <1>2, <1>6, Typed, RowKept DEF IInv, Rows
<1>9. Drafts'
  <2>1. Len(snapshot) \in Nat /\ Len(snapshot') \in Nat
    BY <1>2, Typed
  <2>2. ASSUME NEW m \in Lang \ {l}  PROVE draft[m].base <= Len(snapshot')
    BY <1>2, <2>1, Typed DEF IInv, Drafts, Revision
  <2>3. d.base <= Len(snapshot')
    BY <1>2, <1>4
  <2> QED  BY <1>5, <2>2, <2>3 DEF Drafts
<1>10. NoticeTrue' /\ notice' \in [Translator -> NoticeRecord]
  <2>1. ASSUME NEW t \in Translator, original.rev # 0
        PROVE  Affected(t, content', draft', original.rev)
               = Affected(t, content, draft, original.rev)
    <3>1. ReviewState(draft'[l].base, original.rev) = "current"
      BY <1>2, <1>3, <1>4, <1>5, <2>1, ReviewStates
    <3>2. ASSUME NEW m \in Lang
          PROVE  (m \in Affected(t, content', draft', original.rev))
                 <=> (m \in Affected(t, content, draft, original.rev))
      <4>1. CASE m = l
        BY <1>1, <1>6, <3>1, <4>1 DEF Affected
      <4>2. CASE m # l
        BY <1>5, <1>6, <4>2 DEF Affected
      <4> QED  BY <4>1, <4>2
    <3>3. /\ Affected(t, content', draft', original.rev) \subseteq Lang
          /\ Affected(t, content, draft, original.rev) \subseteq Lang
      BY DEF Affected
    <3> QED  BY <3>2, <3>3
  <2>2. original.rev # 0 => original'.rev = original.rev
    BY <1>2
  <2> QED  BY <1>1, <2>1, <2>2, NoticesKept
<1>11. Revisions'
  BY <1>2, <1>3 DEF Revisions
<1>12. TypeOK'
  BY <1>1, <1>2, <1>5, <1>6, <1>7, <1>10 DEF IInv, TypeOK
<1>13. PlaceholderBacked'
  BY <1>6 DEF IInv, PlaceholderBacked
<1>14. Executions' /\ Fences'
  BY <1>6 DEF IInv, Executions, Fences
<1> QED  BY <1>7, <1>8, <1>9, <1>10, <1>11, <1>12, <1>13, <1>14 DEF IInv

(* The credit of a draft moves, or the draft is deleted.                   *)
LEMMA DraftIInv ==
    ASSUME IInv, NEW l \in Lang, NEW p \in Person,
           CreditDraft(l, p) \/ DeleteDraft(l)
    PROVE  IInv'
<1>1. PICK d \in DraftRecord :
         draft' = [draft EXCEPT ![l] = d] /\ d.base <= Len(snapshot)
  <2>1. CASE CreditDraft(l, p)
    <3> DEFINE d == [draft[l] EXCEPT !.translator = p]
    <3>1. d \in DraftRecord /\ d.base = draft[l].base
      BY Typed DEF DraftRecord
    <3>2. draft' = [draft EXCEPT ![l] = d]
      BY <2>1 DEF CreditDraft
    <3> HIDE DEF d
    <3> QED  BY <3>1, <3>2 DEF IInv, Drafts
  <2>2. CASE DeleteDraft(l)
    <3>1. NoDraft.base = 0 /\ 0 <= Len(snapshot)
      BY Typed DEF NoDraft
    <3> QED  BY <2>2, <3>1, ConstantsTyped DEF DeleteDraft
  <2> QED  BY <2>1, <2>2
<1>2. UNCHANGED <<article, content, access, jobs, public>>
  BY DEF CreditDraft, DeleteDraft
<1>3. Reconcile(content', draft')
  BY <1>2 DEF CreditDraft, DeleteDraft, Reconcile
<1>4. draft' \in [Lang -> DraftRecord] /\ content' \in [Lang -> RowRecord]
  BY <1>1, <1>2 DEF IInv, TypeOK
<1>5. \A m \in Lang : draft'[m].base <= Len(snapshot)
  BY <1>1 DEF IInv, Drafts, TypeOK
<1>6. \A m \in Lang : content'[m] = content[m] /\ Looks(content'[m], content[m])
  BY <1>2 DEF Looks
<1> QED  BY <1>2, <1>3, <1>4, <1>5, <1>6, ReviewedIInv

(* A person publishes a translation.                                       *)
LEMMA PublishIInv ==
    ASSUME IInv, NEW l \in Lang, NEW r \in Revision, PublishTranslation(l, r)
    PROVE  IInv'
<1> DEFINE base == IF r = 0 THEN draft[l].base ELSE r
           row == PublishedRow(l, base)
           d == [draft[l] EXCEPT !.base = base]
<1>1. /\ r \in 0..Len(snapshot)
      /\ content' = [content EXCEPT ![l] = row]
      /\ draft' = [draft EXCEPT ![l] = d]
      /\ Reconcile(content', draft')
      /\ Publish(original, content')
      /\ UNCHANGED <<article, access, jobs>>
  BY DEF PublishTranslation
<1>2. base \in Revision /\ base <= Len(snapshot)
  BY <1>1, Typed DEF IInv, Drafts
<1>3. /\ row \in RowRecord /\ row.kind = "human" /\ ~row.placeholder
      /\ row.token = NoToken /\ row.base = base
  <2>1. row = [kind |-> "human", placeholder |-> FALSE, text |-> NoText, base |-> base,
               token |-> NoToken, stamp |-> Epoch, translator |-> draft[l].translator,
               reviewed |-> FALSE]
    <3>1. PICK t : t = draft[l].translator
      OBVIOUS
    <3> HIDE DEF base
    <3>2. row = [NoRow EXCEPT !.kind = "human", !.base = base, !.translator = t]
      BY <3>1 DEF PublishedRow
    <3> QED  BY <3>1, <3>2 DEF NoRow
  <2> HIDE DEF base
  <2>2. draft[l].translator \in Person
    BY Typed
  <2> QED  BY <1>2, <2>1, <2>2 DEF RowRecord
<1>4. d \in DraftRecord /\ d.base = base
  <2> HIDE DEF base
  <2> QED  BY <1>2, Typed DEF DraftRecord
<1> HIDE DEF base, row, d
<1>5. RowTrue(row, snapshot)
  BY <1>2, <1>3 DEF RowTrue
<1>6. draft' \in [Lang -> DraftRecord] /\ content' \in [Lang -> RowRecord]
  BY <1>1, <1>3, <1>4 DEF IInv, TypeOK
<1>7. \A m \in Lang : draft'[m].base <= Len(snapshot)
  BY <1>1, <1>2, <1>4 DEF IInv, Drafts, TypeOK
<1>8. \A m \in Lang :
         \/ content'[m] = content[m]
         \/ /\ RowTrue(content'[m], snapshot)
            /\ ~content'[m].placeholder /\ content'[m].token = NoToken
  BY <1>1, <1>3, <1>5 DEF IInv, TypeOK
<1> QED  BY <1>1, <1>6, <1>7, <1>8, ReviewedIInv

(* A person acknowledges a revision of the original.                       *)
LEMMA AcknowledgeIInv ==
    ASSUME IInv, NEW l \in Lang, NEW r \in Revision, Acknowledge(l, r)
    PROVE  IInv'
<1>1. /\ r \in 1..Len(snapshot)
      /\ draft' = IF draft[l].exists THEN [draft EXCEPT ![l].base = r] ELSE draft
      /\ content' = IF Reviewable(l)
                    THEN [content EXCEPT ![l].base = r,
                                         ![l].reviewed = content[l].kind = "llm"]
                    ELSE content
      /\ Reconcile(content', draft')
      /\ IF content'[l].base # content[l].base
         THEN Publish(original, content')
         ELSE UNCHANGED public
      /\ UNCHANGED <<article, access, jobs>>
  BY DEF Acknowledge
<1>2. r \in Nat /\ Len(snapshot) \in Nat /\ r <= Len(snapshot)
  BY <1>1, Typed
<1>3. /\ draft' \in [Lang -> DraftRecord]
      /\ \A m \in Lang : draft'[m].base <= Len(snapshot)
  <2>1. CASE draft[l].exists
    <3> DEFINE d == [draft[l] EXCEPT !.base = r]
    <3>1. d \in DraftRecord /\ d.base = r
      BY Typed DEF DraftRecord
    <3>2. draft' = [draft EXCEPT ![l] = d]
      BY <1>1, <2>1
    <3> HIDE DEF d
    <3> QED  BY <1>2, <3>1, <3>2 DEF IInv, Drafts, TypeOK
  <2>2. CASE ~draft[l].exists
    BY <1>1, <2>2 DEF IInv, Drafts, TypeOK
  <2> QED  BY <2>1, <2>2
<1>4. CASE Reviewable(l)
  <2> DEFINE llm == content[l].kind = "llm"
             row == [content[l] EXCEPT !.base = r, !.reviewed = llm]
  <2>1. ~content[l].placeholder /\ content[l].token = NoToken
    BY <1>4 DEF Reviewable, Visible, IInv, TypeOK
  <2>2. content' = [content EXCEPT ![l] = row]
    BY <1>1, <1>4
  <2>3. PICK b \in BOOLEAN : b <=> content[l].kind = "llm"
    OBVIOUS
  <2>4. /\ row \in RowRecord /\ row.kind = content[l].kind /\ row.base = r
        /\ row.placeholder = content[l].placeholder /\ row.token = content[l].token
        /\ row.text = content[l].text /\ row.translator = content[l].translator
        /\ row.reviewed = llm
    <3>1. llm \in BOOLEAN
      OBVIOUS
    <3> HIDE DEF llm
    <3> QED  BY <3>1, Typed DEF RowRecord
  <2> HIDE DEF row
  <2>5. RowTrue(row, snapshot)
    BY <1>2, <2>1, <2>4 DEF RowTrue
  <2>6. /\ content' \in [Lang -> RowRecord] /\ content'[l] = row
        /\ \A m \in Lang \ {l} : content'[m] = content[m]
    BY <2>2, <2>4 DEF IInv, TypeOK
  <2>7. ~row.placeholder /\ row.token = NoToken
    BY <2>1, <2>4
  <2>8. \A m \in Lang :
           \/ content'[m] = content[m]
           \/ /\ RowTrue(content'[m], snapshot)
              /\ ~content'[m].placeholder /\ content'[m].token = NoToken
    BY <2>5, <2>6, <2>7
  <2>9. \/ Publish(original, content')
        \/ UNCHANGED public /\ \A m \in Lang : Looks(content'[m], content[m])
    <3>1. CASE content'[l].base # content[l].base
      BY <1>1, <3>1
    <3>2. CASE content'[l].base = content[l].base
      <4>1. Looks(row, content[l])
        BY <2>1, <2>4, <2>6, <3>2 DEF Looks, Visible
      <4>2. \A m \in Lang : Looks(content[m], content[m])
        BY DEF Looks
      <4> QED  BY <1>1, <2>6, <3>2, <4>1, <4>2
    <3> QED  BY <3>1, <3>2
  <2> QED  BY <1>1, <1>3, <2>6, <2>8, <2>9, ReviewedIInv
<1>5. CASE ~Reviewable(l)
  <2>1. content' = content /\ content' \in [Lang -> RowRecord] /\ UNCHANGED public
    BY <1>1, <1>5 DEF IInv, TypeOK
  <2>2. \A m \in Lang : content'[m] = content[m] /\ Looks(content'[m], content[m])
    BY <2>1 DEF Looks
  <2> QED  BY <1>1, <1>3, <2>1, <2>2, ReviewedIInv
<1> QED  BY <1>4, <1>5

(* A published translation is withdrawn.                                   *)
LEMMA WithdrawIInv ==
    ASSUME IInv, NEW l \in Lang, Withdraw(l)
    PROVE  IInv'
<1>1. /\ content' = [content EXCEPT ![l] = NoRow]
      /\ Reconcile(content', draft') /\ Publish(original, content')
      /\ UNCHANGED <<article, draft, access, jobs>>
  BY DEF Withdraw, Reconcile
<1>2. draft' \in [Lang -> DraftRecord] /\ content' \in [Lang -> RowRecord]
  BY <1>1, ConstantsTyped DEF IInv, TypeOK
<1>3. \A m \in Lang : draft'[m].base <= Len(snapshot)
  BY <1>1 DEF IInv, Drafts
<1>4. RowTrue(NoRow, snapshot) /\ ~NoRow.placeholder /\ NoRow.token = NoToken
  BY Typed, UnseenRows
<1>5. \A m \in Lang :
         \/ content'[m] = content[m]
         \/ /\ RowTrue(content'[m], snapshot)
            /\ ~content'[m].placeholder /\ content'[m].token = NoToken
  BY <1>1, <1>4 DEF IInv, TypeOK
<1> QED  BY <1>1, <1>2, <1>3, <1>5, ReviewedIInv

(* Notifications go with the access.                                       *)
LEMMA AccessIInv ==
    ASSUME IInv, NEW p \in Translator, LoseAccess(p) \/ GainAccess(p)
    PROVE  IInv'
<1>1. UNCHANGED <<original, snapshot, allowed, censored, content, draft, task, exec,
                  abandoned, variant, federated>>
  BY DEF LoseAccess, GainAccess, article, jobs, public
<1>2. access' \subseteq Translator
  BY DEF LoseAccess, GainAccess, IInv, TypeOK
<1>3. /\ notice' \in [Translator -> NoticeRecord]
      /\ \A t \in Translator :
            \/ notice'[t] = NoNotice
            \/ notice'[t] = notice[t] /\ (t \in access => t \in access')
  <2>1. CASE LoseAccess(p)
    BY <2>1, ConstantsTyped DEF LoseAccess, IInv, TypeOK
  <2>2. CASE GainAccess(p)
    BY <2>2 DEF GainAccess, IInv, TypeOK
  <2> QED  BY <2>1, <2>2
<1>4. NoticeTrue'
  <2>1. \A t \in Translator : Affected(t, content, draft, original.rev)'
                              = Affected(t, content, draft, original.rev)
    BY <1>1 DEF Affected
  <2> QED  BY <1>1, <1>3, <2>1 DEF IInv, NoticeTrue
<1>5. Revisions'
  BY <1>1, <1>3 DEF IInv, Revisions
<1>6. PublicAgrees' /\ Rows' /\ Drafts'
  BY <1>1 DEF IInv, PublicAgrees, Rows, Drafts, Public
<1>7. PlaceholderBacked' /\ Executions' /\ Fences'
  BY <1>1 DEF IInv, PlaceholderBacked, Executions, Fences
<1>8. TypeOK'
  BY <1>1, <1>2, <1>3 DEF IInv, TypeOK
<1> QED  BY <1>4, <1>5, <1>6, <1>7, <1>8 DEF IInv

-----------------------------------------------------------------------------
(* The tasks. *)

(* Only tasks and executions change.                                       *)
LEMMA OnlyJobs ==
    ASSUME IInv, UNCHANGED <<article, content, draft, notice, access, public>>,
           task' \in [Lang -> Seq(Token)], exec' \in [Worker -> ExecRecord],
           abandoned' \subseteq Lang
    PROVE  /\ TypeOK' /\ PublicAgrees' /\ Rows' /\ Drafts' /\ Revisions'
           /\ NoticeTrue'
<1>1. UNCHANGED <<original, snapshot, allowed, censored, content, draft, notice,
                  access, variant, federated>>
  BY DEF article, public
<1>2. TypeOK'
  BY <1>1 DEF IInv, TypeOK
<1>3. PublicAgrees' /\ Rows' /\ Drafts' /\ Revisions'
  BY <1>1 DEF IInv, PublicAgrees, Rows, Drafts, Revisions, Public
<1>4. NoticeTrue'
  BY <1>1 DEF IInv, NoticeTrue, Affected
<1> QED  BY <1>2, <1>3, <1>4

(* eligibleArticleTranslation, when the job is not eligible: whatever it   *)
(* does to the placeholder, it concerns no other execution, and every      *)
(* placeholder left has a task.                                            *)
LEMMA IneligibleKeeps ==
    ASSUME IInv, NEW l \in Lang, NEW token, NEW claim, NEW tasks \in Seq(Token),
           UNCHANGED <<allowed, censored, draft, notice, access, public>>,
           exec' \in [Worker -> ExecRecord],
           Ineligible(l, token, claim, tasks),
           content[l].placeholder /\ ~JobRow(l, token, claim)
           => content[l].token \in Range(tasks) \/ l \in abandoned
    PROVE  /\ TypeOK' /\ PublicAgrees' /\ Rows' /\ Drafts' /\ Revisions'
           /\ NoticeTrue' /\ PlaceholderBacked'
           /\ \A m \in Lang : \/ content'[m] = content[m]
                              \/ content'[m].token = NoToken
                              \/ \A w \in Worker : content'[m].token # exec[w].token
           /\ \A m \in Lang \ {l} : task'[m] = task[m]
           /\ tasks # <<>> => task'[l] # <<>> /\ Head(task'[l]) = Head(tasks)
<1>1. CASE JobRow(l, token, claim) /\ allowed
  <2> DEFINE r == Placeholder(original.text, original'.rev, Tokens[l])
  <2>1. /\ FreshTokens # {} /\ Ensured(original)
        /\ content' = [content EXCEPT ![l] = r]
        /\ task' = [task EXCEPT ![l] = Append(tasks, Tokens[l])]
        /\ abandoned' = abandoned \ {l}
        /\ content[l].placeholder
    BY <1>1 DEF Ineligible, JobRow
  <2>2. /\ Tokens[l] \in Token
        /\ \A m \in Lang : Tokens[l] # content[m].token
        /\ \A w \in Worker : Tokens[l] # exec[w].token
    BY <2>1, FreshOnes
  <2>3. /\ original'.rev \in Revision /\ original'.rev \in 1..Len(snapshot')
        /\ snapshot'[original'.rev] = original.text /\ Len(snapshot') \in Nat
    BY <2>1, EnsuredKeeps
  <2>4. /\ r \in RowRecord /\ r.kind = "llm" /\ r.placeholder
        /\ ~r.reviewed /\ r.text = original.text /\ r.base = original'.rev
        /\ r.token = Tokens[l] /\ ~Visible(r)
    BY <2>2, <2>3, Typed, PlaceholderTyped
  <2> HIDE DEF r
  <2>5. RowTrue(r, snapshot')
    <3>1. r.base <= Len(snapshot') /\ r.text = snapshot'[r.base]
      BY <2>3, <2>4
    <3> QED  BY <2>4, <3>1, Zenon DEF RowTrue
  <2>6. r.placeholder <=> r.token # NoToken
    <3>1. NoToken \notin Token
      BY ArticleTranslationsAssumption DEF ArticleTranslationsAssumption
    <3> QED  BY <2>2, <2>4, <3>1
  <2>7. /\ task' \in [Lang -> Seq(Token)]
        /\ Tokens[l] \in Range(task'[l])
        /\ tasks # <<>> => task'[l] # <<>> /\ Head(task'[l]) = Head(tasks)
        /\ \A m \in Lang \ {l} : task'[m] = task[m]
    BY <2>1, <2>2, TaskAdded
  <2>8. abandoned' \subseteq Lang
    BY <2>1 DEF IInv, TypeOK
  <2>9. /\ TypeOK' /\ PublicAgrees' /\ Rows' /\ Drafts' /\ Revisions' /\ NoticeTrue'
    <3>1. ~Visible(content[l]) /\ r.kind # "human"
      BY <2>1, <2>4 DEF Visible
    <3> QED  BY <2>1, <2>4, <2>5, <2>6, <2>7, <2>8, <3>1, UnseenChange
  <2>10. /\ content'[l] = r /\ \A m \in Lang \ {l} : content'[m] = content[m]
    BY <2>1 DEF IInv, TypeOK
  <2>11. PlaceholderBacked'
    <3> SUFFICES ASSUME NEW m \in Lang, content'[m].placeholder
                 PROVE  content'[m].token \in Range(task'[m]) \/ m \in abandoned'
      BY DEF PlaceholderBacked
    <3>1. CASE m = l
      BY <2>4, <2>7, <2>10, <3>1
    <3>2. CASE m # l
      BY <2>1, <2>7, <2>10, <3>2 DEF IInv, PlaceholderBacked
    <3> QED  BY <3>1, <3>2
  <2>12. \A m \in Lang : \/ content'[m] = content[m]
                         \/ \A w \in Worker : content'[m].token # exec[w].token
    BY <2>2, <2>4, <2>10
  <2> QED  BY <2>7, <2>9, <2>11, <2>12
<1>2. CASE JobRow(l, token, claim) /\ ~allowed
  <2>1. /\ content' = [content EXCEPT ![l] = NoRow]
        /\ task' = [task EXCEPT ![l] = tasks]
        /\ UNCHANGED <<original, snapshot, abandoned>>
        /\ content[l].placeholder
    BY <1>2 DEF Ineligible, JobRow
  <2>2. /\ task' \in [Lang -> Seq(Token)] /\ task'[l] = tasks
        /\ \A m \in Lang \ {l} : task'[m] = task[m]
    BY <2>1 DEF IInv, TypeOK
  <2>3. abandoned' \subseteq Lang
    BY <2>1 DEF IInv, TypeOK
  <2>4. /\ TypeOK' /\ PublicAgrees' /\ Rows' /\ Drafts' /\ Revisions' /\ NoticeTrue'
    <3>1. ~Visible(content[l])
      BY <2>1 DEF Visible
    <3>2. /\ NoRow \in RowRecord /\ ~Visible(NoRow) /\ NoRow.kind # "human"
          /\ RowTrue(NoRow, snapshot') /\ (NoRow.placeholder <=> NoRow.token # NoToken)
      BY <2>1, Typed, ConstantsTyped, UnseenRows
    <3> QED  BY <2>1, <2>2, <2>3, <3>1, <3>2, UnseenChange
  <2>5. /\ content'[l] = NoRow /\ \A m \in Lang \ {l} : content'[m] = content[m]
    BY <2>1 DEF IInv, TypeOK
  <2>6. PlaceholderBacked'
    <3> SUFFICES ASSUME NEW m \in Lang, content'[m].placeholder
                 PROVE  content'[m].token \in Range(task'[m]) \/ m \in abandoned'
      BY DEF PlaceholderBacked
    <3>1. m # l
      BY <2>5, UnseenRows
    <3> QED  BY <2>1, <2>2, <2>5, <3>1 DEF IInv, PlaceholderBacked
  <2>7. \A m \in Lang : content'[m] = content[m] \/ content'[m].token = NoToken
    BY <2>5, UnseenRows
  <2> QED  BY <2>2, <2>4, <2>6, <2>7
<1>3. CASE ~JobRow(l, token, claim)
  <2>1. /\ content' = content
        /\ task' = [task EXCEPT ![l] = tasks]
        /\ UNCHANGED <<original, snapshot, abandoned>>
    BY <1>3 DEF Ineligible
  <2>2. /\ task' \in [Lang -> Seq(Token)] /\ task'[l] = tasks
        /\ \A m \in Lang \ {l} : task'[m] = task[m]
    BY <2>1 DEF IInv, TypeOK
  <2>3. abandoned' \subseteq Lang
    BY <2>1 DEF IInv, TypeOK
  <2>4. /\ TypeOK' /\ PublicAgrees' /\ Rows' /\ Drafts' /\ Revisions' /\ NoticeTrue'
    <3>1. UNCHANGED <<article, content, draft, notice, access, public>>
      BY <2>1 DEF article
    <3> QED  BY <2>2, <2>3, <3>1, OnlyJobs
  <2>5. PlaceholderBacked'
    <3> SUFFICES ASSUME NEW m \in Lang, content[m].placeholder
                 PROVE  content[m].token \in Range(task'[m]) \/ m \in abandoned
      BY <2>1 DEF PlaceholderBacked
    <3>1. CASE m = l
      BY <1>3, <2>2, <3>1
    <3>2. CASE m # l
      BY <2>2, <3>2 DEF IInv, PlaceholderBacked
    <3> QED  BY <3>1, <3>2
  <2> QED  BY <2>1, <2>2, <2>4, <2>5
<1> QED  BY <1>1, <1>2, <1>3

(* The first task of a language is claimed: executions that had its lease  *)
(* have lost it.                                                           *)
LEMMA BeginIInv ==
    ASSUME IInv, NEW w \in Worker, NEW l \in Lang, BeginTranslation(w, l)
    PROVE  IInv'
<1> DEFINE t == Head(task[l])
           lost == [v \in Worker |-> IF Loses(v, l) THEN [exec[v] EXCEPT !.holds = FALSE]
                                     ELSE exec[v]]
           mine == [lang |-> l, token |-> t, claim |-> Now(t), text |-> content[l].text,
                    holds |-> TRUE]
           row == [content[l] EXCEPT !.stamp = Now(t),
                                     !.base = IF @ = 0 THEN original'.rev ELSE @]
<1>1. /\ Free(w) /\ task[l] # <<>>
      /\ UNCHANGED <<allowed, censored, draft, notice, access, public>>
  BY DEF BeginTranslation
<1>2. /\ t \in Token /\ Tail(task[l]) \in Seq(Token)
      /\ \A x \in Range(task[l]) : x = t \/ x \in Range(Tail(task[l]))
  BY <1>1, Typed, TailHolds
<1>3. ASSUME NEW v \in Worker
      PROVE  /\ lost[v] \in ExecRecord
             /\ lost[v] = IdleExec \/ GoesOn(lost[v], exec[v])
             /\ lost[v].token # NoToken /\ lost[v].holds => lost[v].lang # l
  <2>1. CASE Loses(v, l)
    <3>1. lost[v] = [exec[v] EXCEPT !.holds = FALSE] /\ exec[v].token # NoToken
      BY <2>1 DEF Loses, Free
    <3> HIDE DEF lost
    <3>2. /\ lost[v] \in ExecRecord /\ lost[v].holds = FALSE
          /\ lost[v].lang = exec[v].lang /\ lost[v].token = exec[v].token
          /\ lost[v].claim = exec[v].claim /\ lost[v].text = exec[v].text
      BY <3>1, Typed DEF ExecRecord
    <3> QED  BY <3>1, <3>2 DEF GoesOn
  <2>2. CASE ~Loses(v, l)
    <3>1. lost[v] = exec[v]
      BY <2>2
    <3>2. exec[v].token = NoToken => exec[v] = IdleExec
      BY DEF IInv, Executions, ExecTrue
    <3> HIDE DEF lost
    <3> QED  BY <2>2, <3>1, <3>2, Typed DEF GoesOn, Loses, Free
  <2> QED  BY <2>1, <2>2
<1>4. lost \in [Worker -> ExecRecord]
  BY <1>3
<1>5. CASE ~Eligible(l, t, Epoch)
  <2>1. Ineligible(l, t, Epoch, Tail(task[l])) /\ exec' = lost
    BY <1>5 DEF BeginTranslation
  <2> HIDE DEF lost
  <2>2. content[l].placeholder /\ ~JobRow(l, t, Epoch)
        => content[l].token \in Range(Tail(task[l])) \/ l \in abandoned
    <3>1. content[l].placeholder /\ ~JobRow(l, t, Epoch) => content[l].token # t
      BY DEF JobRow
    <3>2. content[l].placeholder => content[l].token \in Range(task[l]) \/ l \in abandoned
      BY DEF IInv, PlaceholderBacked
    <3> QED  BY <1>2, <3>1, <3>2
  <2>3. /\ TypeOK' /\ PublicAgrees' /\ Rows' /\ Drafts' /\ Revisions'
        /\ NoticeTrue' /\ PlaceholderBacked'
        /\ \A m \in Lang : \/ content'[m] = content[m]
                           \/ content'[m].token = NoToken
                           \/ \A v \in Worker : content'[m].token # exec[v].token
        /\ \A m \in Lang \ {l} : task'[m] = task[m]
    <3> HIDE DEF t
    <3> QED  BY <1>1, <1>2, <1>4, <2>1, <2>2, IneligibleKeeps
  <2>4. \A v \in Worker : exec'[v] = IdleExec \/ GoesOn(exec'[v], exec[v])
    BY <1>3, <2>1
  <2>5. ASSUME NEW v \in Worker, exec'[v].token # NoToken
        PROVE  LET m == exec[v].lang IN
               /\ content'[m].token = exec[v].token =>
                     /\ content[m].token = exec[v].token
                     /\ content'[m].text = content[m].text
                     /\ exec'[v].holds => content'[m].stamp = content[m].stamp
               /\ exec'[v].holds => task'[m] # <<>> /\ Head(task'[m]) = exec[v].token
    <3>1. GoesOn(exec'[v], exec[v]) /\ exec[v].lang \in Lang
      BY <2>4, <2>5, Typed, ConstantsTyped
    <3>2. exec'[v].holds => exec[v].lang # l
      BY <1>3, <2>1, <2>5, <3>1 DEF GoesOn
    <3>3. exec[v].token # NoToken /\ (exec'[v].holds => exec[v].holds)
      BY <3>1 DEF GoesOn
    <3>4. exec'[v].holds => /\ task[exec[v].lang] # <<>>
                            /\ Head(task[exec[v].lang]) = exec[v].token
      BY <3>3 DEF IInv, Executions, ExecTrue
    <3> QED  BY <2>3, <3>1, <3>2, <3>3, <3>4
  <2>6. Executions' /\ Fences'
    BY <2>4, <2>5, ExecutionsKept
  <2> QED  BY <2>3, <2>6 DEF IInv
<1>6. CASE Eligible(l, t, Epoch)
  <2>1. /\ Time(t) # {} /\ Ensured(original)
        /\ content' = [content EXCEPT ![l].stamp = Now(t),
                                      ![l].base = IF @ = 0 THEN original'.rev ELSE @]
        /\ exec' = [lost EXCEPT ![w] = mine]
        /\ UNCHANGED <<task, abandoned>>
    BY <1>6 DEF BeginTranslation
  <2>2. /\ content[l].placeholder /\ content[l].token = t
        /\ content[l].text = original.text
        /\ content[l].base = 0 \/ content[l].base = original.rev
    BY <1>6 DEF Eligible, JobRow, Matches
  <2>3. Now(t) \in Stamp /\ Now(t) \notin StampsOf(t)
    BY <2>1 DEF Now, Time
  <2> HIDE DEF t
  <2>4. /\ original' \in [text : Text, rev : Revision]
        /\ original'.rev \in 1..Len(snapshot')
        /\ snapshot'[original'.rev] = original.text
        /\ snapshot' \in Seq(Text) /\ Len(snapshot) <= Len(snapshot')
        /\ \A i \in 1..Len(snapshot) : snapshot'[i] = snapshot[i]
    BY <2>1, EnsuredKeeps
  <2>5. PICK base \in Revision : base = IF content[l].base = 0 THEN original'.rev
                                        ELSE content[l].base
    BY <2>4, Typed
  <2>6. row = [content[l] EXCEPT !.stamp = Now(t), !.base = base]
    BY <2>5
  <2>7. content' = [content EXCEPT ![l] = row]
    BY <2>1, Typed DEF RowRecord
  <2> HIDE DEF row
  <2>8. /\ row \in RowRecord /\ row.kind = content[l].kind /\ row.base = base
        /\ row.placeholder = content[l].placeholder /\ row.token = content[l].token
        /\ row.text = content[l].text /\ row.reviewed = content[l].reviewed
        /\ row.stamp = Now(t)
    BY <2>3, <2>6, Typed DEF RowRecord
  <2>9. content[l].kind = "llm" /\ ~content[l].reviewed
    BY <2>2 DEF IInv, Rows, RowTrue
  <2>10. RowTrue(row, snapshot')
    <3>1. CASE content[l].base = 0
      <4>1. row.base <= Len(snapshot') /\ row.text = snapshot'[row.base]
        BY <2>2, <2>4, <2>5, <2>8, <3>1
      <4>2. row.kind = "llm" /\ ~row.reviewed
        BY <2>8, <2>9
      <4> QED  BY <4>1, <4>2, Zenon DEF RowTrue
    <3>2. CASE content[l].base # 0
      <4>1. RowTrue(content[l], snapshot')
        BY <2>4, Typed, RowKept DEF IInv, Rows
      <4>2. row.base = content[l].base
        BY <2>5, <2>8, <3>2
      <4> QED  BY <2>8, <4>1, <4>2 DEF RowTrue
    <3> QED  BY <3>1, <3>2
  <2>11. ~Visible(content[l]) /\ ~Visible(row) /\ row.kind # "human"
    BY <2>2, <2>8, <2>9 DEF Visible
  <2>12. row.placeholder <=> row.token # NoToken
    BY <2>8 DEF IInv, TypeOK
  <2>13. mine \in ExecRecord /\ task' \in [Lang -> Seq(Token)] /\ abandoned' \subseteq Lang
    BY <1>2, <2>1, <2>3, Typed DEF ExecRecord, IInv, TypeOK
  <2>14. /\ mine.token = t /\ mine.claim = Now(t) /\ mine.lang = l
         /\ mine.text = content[l].text
    OBVIOUS
  <2> HIDE DEF mine, lost
  <2>15. /\ exec' \in [Worker -> ExecRecord] /\ exec'[w] = mine
         /\ \A v \in Worker \ {w} : exec'[v] = lost[v]
    BY <1>4, <2>1, <2>13
  <2>16. /\ PublicAgrees' /\ Rows' /\ Drafts' /\ Revisions' /\ NoticeTrue' /\ TypeOK'
    BY <1>1, <2>1, <2>7, <2>8, <2>10, <2>11, <2>12, <2>13, <2>15, UnseenChange
  <2>17. /\ content'[l] = row /\ \A m \in Lang \ {l} : content'[m] = content[m]
    BY <2>7 DEF IInv, TypeOK
  <2>18. PlaceholderBacked'
    <3>1. \A m \in Lang : /\ content'[m].placeholder => content[m].placeholder
                          /\ content'[m].token = content[m].token
      BY <2>8, <2>17
    <3> QED  BY <2>1, <3>1 DEF IInv, PlaceholderBacked
  <2>19. ASSUME NEW v \in Worker \ {w}
         PROVE  /\ exec'[v] = IdleExec \/ GoesOn(exec'[v], exec[v])
                /\ exec'[v].token # NoToken /\ exec'[v].holds => exec'[v].lang # l
    BY <1>3, <2>15
  <2>20. ASSUME NEW v \in Worker \ {w}
         PROVE  ExecTrue(exec'[v], content'[exec'[v].lang], task'[exec'[v].lang])
    <3>1. ASSUME exec'[v].token # NoToken
          PROVE  LET m == exec[v].lang IN
                 /\ content'[m].token = exec[v].token =>
                       /\ content[m].token = exec[v].token
                       /\ content'[m].text = content[m].text
                       /\ exec'[v].holds => content'[m].stamp = content[m].stamp
                 /\ exec'[v].holds => task'[m] # <<>> /\ Head(task'[m]) = exec[v].token
      <4>1. GoesOn(exec'[v], exec[v]) /\ exec[v].lang \in Lang
        BY <2>19, <3>1, Typed, ConstantsTyped
      <4>2. /\ exec'[v].holds => exec[v].lang # l
            /\ exec[v].token # NoToken /\ (exec'[v].holds => exec[v].holds)
        BY <2>19, <3>1, <4>1 DEF GoesOn
      <4>3. exec'[v].holds => /\ task[exec[v].lang] # <<>>
                              /\ Head(task[exec[v].lang]) = exec[v].token
        BY <4>2 DEF IInv, Executions, ExecTrue
      <4> QED  BY <2>1, <2>8, <2>17, <4>1, <4>2, <4>3
    <3> QED  BY <2>19, <3>1, ExecutionKept
  <2>21. ExecTrue(exec'[w], content'[exec'[w].lang], task'[exec'[w].lang])
    <3>1. Now(t) # Epoch /\ t # NoToken
      BY <1>2, <2>3, ArticleTranslationsAssumption DEF ArticleTranslationsAssumption
    <3>2. task'[l] # <<>> /\ Head(task'[l]) = t
      BY <1>1, <2>1 DEF t
    <3>3. content'[l].text = mine.text /\ content'[l].stamp = Now(t)
      BY <2>8, <2>14, <2>17
    <3> QED  BY <2>14, <2>15, <3>1, <3>2, <3>3 DEF ExecTrue
  <2>22. ASSUME NEW v \in Worker \ {w}
         PROVE  Apart(exec'[v], exec'[w]) /\ Apart(exec'[w], exec'[v])
    <3>1. SUFFICES ASSUME exec'[v].token # NoToken
                   PROVE  /\ exec'[v].token = t => exec'[v].claim # Now(t)
                          /\ ~(exec'[v].holds /\ exec'[v].lang = l)
      BY <2>14, <2>15 DEF Apart
    <3>2. GoesOn(exec'[v], exec[v])
      BY <2>19, <3>1, ConstantsTyped
    <3>3. exec'[v].token = exec[v].token /\ exec'[v].claim = exec[v].claim
      BY <3>2 DEF GoesOn
    <3>4. exec[v].token = t => exec[v].claim \in StampsOf(t)
      BY DEF StampsOf
    <3> QED  BY <2>3, <2>19, <3>1, <3>3, <3>4
  <2>23. Executions'
    BY <2>20, <2>21 DEF Executions
  <2>24. Fences'
    <3> SUFFICES ASSUME NEW v \in Worker, NEW u \in Worker, v # u
                 PROVE  Apart(exec'[v], exec'[u])
      BY DEF Fences
    <3>1. CASE v = w \/ u = w
      BY <2>22, <3>1
    <3>2. CASE v # w /\ u # w
      BY <2>19, <3>2, ApartKept
    <3> QED  BY <3>1, <3>2
  <2> QED  BY <2>16, <2>18, <2>23, <2>24 DEF IInv
<1> QED  BY <1>5, <1>6

(* The acknowledgement of an execution takes its own task or none, and     *)
(* leaves the task of any other that holds a lease.                        *)
LEMMA RemainingTasks ==
    ASSUME IInv, NEW w \in Worker, ~Free(w)
    PROVE  LET l == exec[w].lang IN
           /\ Remaining(w) \in Seq(Token)
           /\ \A x \in Range(task[l]) : x = exec[w].token \/ x \in Range(Remaining(w))
           /\ ~exec[w].holds => Remaining(w) = task[l]
           /\ \A v \in Worker \ {w} :
                 exec[v].token # NoToken /\ exec[v].holds /\ exec[v].lang = l =>
                    Remaining(w) # <<>> /\ Head(Remaining(w)) = exec[v].token
<1> DEFINE l == exec[w].lang
<1>1. l \in Lang /\ task[l] \in Seq(Token) /\ exec[w].token # NoToken
  BY Typed DEF Free
<1>2. exec[w].holds => task[l] # <<>> /\ Head(task[l]) = exec[w].token
  BY <1>1 DEF IInv, Executions, ExecTrue
<1>3. /\ Remaining(w) \in Seq(Token)
      /\ \A x \in Range(task[l]) : x = exec[w].token \/ x \in Range(Remaining(w))
  <2>1. CASE exec[w].holds
    <3>1. Remaining(w) = Tail(task[l])
      BY <2>1 DEF Remaining
    <3> QED  BY <1>1, <1>2, <2>1, <3>1, TailHolds
  <2>2. CASE ~exec[w].holds
    BY <1>1, <2>2 DEF Remaining
  <2> QED  BY <2>1, <2>2
<1>4. ASSUME NEW v \in Worker \ {w}, exec[v].token # NoToken, exec[v].holds,
             exec[v].lang = l
      PROVE  Remaining(w) # <<>> /\ Head(Remaining(w)) = exec[v].token
  <2>1. Apart(exec[v], exec[w])
    BY DEF IInv, Fences
  <2>2. ~exec[w].holds
    BY <1>1, <1>4, <2>1 DEF Apart
  <2>3. task[l] # <<>> /\ Head(task[l]) = exec[v].token
    BY <1>4 DEF IInv, Executions, ExecTrue
  <2> QED  BY <2>2, <2>3 DEF Remaining
<1>5. ~exec[w].holds => Remaining(w) = task[l]
  BY DEF Remaining
<1> QED  BY <1>3, <1>4, <1>5

(* An execution ends: the others go on.                                    *)
LEMMA ExecutionEnds ==
    ASSUME IInv, NEW w \in Worker, exec' = [exec EXCEPT ![w] = IdleExec]
    PROVE  /\ exec' \in [Worker -> ExecRecord]
           /\ exec'[w] = IdleExec /\ \A v \in Worker \ {w} : exec'[v] = exec[v]
           /\ \A v \in Worker : exec'[v] = IdleExec \/ GoesOn(exec'[v], exec[v])
<1>1. /\ exec' \in [Worker -> ExecRecord]
      /\ exec'[w] = IdleExec /\ \A v \in Worker \ {w} : exec'[v] = exec[v]
  BY ConstantsTyped DEF IInv, TypeOK
<1>2. \A v \in Worker : exec[v] = IdleExec \/ GoesOn(exec[v], exec[v])
  BY DEF IInv, Executions, ExecTrue, GoesOn
<1> QED  BY <1>1, <1>2

(* The answer of the language model is applied, or comes too late.         *)
LEMMA FinishIInv ==
    ASSUME IInv, NEW w \in Worker, FinishTranslation(w)
    PROVE  IInv'
<1> DEFINE l == exec[w].lang
           t == exec[w].token
           c == exec[w].claim
           row == [content[l] EXCEPT !.placeholder = FALSE, !.text = exec[w].text,
                                     !.token = NoToken, !.stamp = Epoch]
<1>1. /\ ~Free(w) /\ exec' = [exec EXCEPT ![w] = IdleExec]
      /\ UNCHANGED <<allowed, censored, draft, notice, access>>
  BY DEF FinishTranslation
<1>2. l \in Lang /\ t # NoToken /\ t \in Token
  BY <1>1, Typed DEF Free
<1>3. /\ exec' \in [Worker -> ExecRecord]
      /\ exec'[w] = IdleExec /\ \A v \in Worker \ {w} : exec'[v] = exec[v]
      /\ \A v \in Worker : exec'[v] = IdleExec \/ GoesOn(exec'[v], exec[v])
  BY <1>1, ExecutionEnds
<1>4. /\ Remaining(w) \in Seq(Token)
      /\ \A x \in Range(task[l]) : x = t \/ x \in Range(Remaining(w))
      /\ ~exec[w].holds => Remaining(w) = task[l]
      /\ \A v \in Worker \ {w} :
            exec[v].token # NoToken /\ exec[v].holds /\ exec[v].lang = l =>
               Remaining(w) # <<>> /\ Head(Remaining(w)) = exec[v].token
  BY <1>1, RemainingTasks
<1>5. ASSUME \A m \in Lang : \/ content'[m] = content[m]
                             \/ content'[m].token = NoToken
                             \/ \A v \in Worker : content'[m].token # exec[v].token,
             \A m \in Lang \ {l} : task'[m] = task[m],
             Remaining(w) # <<>> => /\ task'[l] # <<>>
                                    /\ Head(task'[l]) = Head(Remaining(w))
      PROVE  Executions' /\ Fences'
  <2>1. ASSUME NEW v \in Worker, exec'[v].token # NoToken
        PROVE  LET m == exec[v].lang IN
               /\ content'[m].token = exec[v].token =>
                     /\ content[m].token = exec[v].token
                     /\ content'[m].text = content[m].text
                     /\ exec'[v].holds => content'[m].stamp = content[m].stamp
               /\ exec'[v].holds => task'[m] # <<>> /\ Head(task'[m]) = exec[v].token
    <3>1. v # w /\ exec'[v] = exec[v] /\ exec[v].lang \in Lang
      BY <1>3, <2>1, Typed, ConstantsTyped
    <3>2. ASSUME exec[v].holds
          PROVE  task'[exec[v].lang] # <<>> /\ Head(task'[exec[v].lang]) = exec[v].token
      <4>1. CASE exec[v].lang = l
        <5>1. Remaining(w) # <<>> /\ Head(Remaining(w)) = exec[v].token
          BY <1>4, <2>1, <3>1, <3>2, <4>1
        <5> QED  BY <1>5, <4>1, <5>1
      <4>2. CASE exec[v].lang # l
        BY <1>5, <2>1, <3>1, <3>2, <4>2 DEF IInv, Executions, ExecTrue
      <4> QED  BY <4>1, <4>2
    <3> QED  BY <1>5, <2>1, <3>1, <3>2
  <2> QED  BY <1>3, <2>1, ExecutionsKept
<1>6. CASE ~Eligible(l, t, c)
  <2>1. Ineligible(l, t, c, Remaining(w)) /\ UNCHANGED public
    BY <1>6 DEF FinishTranslation
  <2>2. content[l].placeholder /\ ~JobRow(l, t, c)
        => content[l].token \in Range(Remaining(w)) \/ l \in abandoned
    <3> SUFFICES ASSUME content[l].placeholder, ~JobRow(l, t, c)
                 PROVE  content[l].token \in Range(Remaining(w)) \/ l \in abandoned
      OBVIOUS
    <3>1. content[l].token \in Range(task[l]) \/ l \in abandoned
      BY <1>2 DEF IInv, PlaceholderBacked
    <3>2. ASSUME content[l].token = t  PROVE ~exec[w].holds
      <4>1. content[l].stamp # c
        BY <3>2 DEF JobRow
      <4> QED  BY <1>2, <3>2, <4>1 DEF IInv, Executions, ExecTrue
    <3> QED  BY <1>4, <3>1, <3>2
  <2> HIDE DEF l, t, c
  <2>3. /\ TypeOK' /\ PublicAgrees' /\ Rows' /\ Drafts' /\ Revisions'
        /\ NoticeTrue' /\ PlaceholderBacked'
        /\ \A m \in Lang : \/ content'[m] = content[m]
                           \/ content'[m].token = NoToken
                           \/ \A v \in Worker : content'[m].token # exec[v].token
        /\ \A m \in Lang \ {l} : task'[m] = task[m]
        /\ Remaining(w) # <<>> => task'[l] # <<>> /\ Head(task'[l]) = Head(Remaining(w))
    BY <1>1, <1>2, <1>3, <1>4, <2>1, <2>2, IneligibleKeeps
  <2>4. Executions' /\ Fences'
    BY <1>5, <2>3
  <2> QED  BY <2>3, <2>4 DEF IInv
<1>7. CASE Eligible(l, t, c)
  <2>1. /\ content' = [content EXCEPT ![l] = row]
        /\ task' = [task EXCEPT ![l] = Remaining(w)]
        /\ Publish(original, content')
        /\ UNCHANGED <<original, snapshot, abandoned>>
    BY <1>7 DEF FinishTranslation, Filled
  <2>2. content[l].placeholder /\ content[l].token = t
    BY <1>7 DEF Eligible, JobRow
  <2>3. content[l].text = exec[w].text
    BY <1>2, <2>2 DEF IInv, Executions, ExecTrue
  <2>4. content[l].kind = "llm" /\ ~content[l].reviewed
    BY <1>2, <2>2 DEF IInv, Rows, RowTrue
  <2> HIDE DEF l, t, c
  <2>5. exec[w].text \in Text \cup {NoText}
    BY <1>2, <2>3, Typed
  <2>6. /\ row \in RowRecord /\ row.kind = content[l].kind /\ row.base = content[l].base
        /\ row.placeholder = FALSE /\ row.token = NoToken
        /\ row.text = exec[w].text /\ row.reviewed = content[l].reviewed
    <3>1. content[l] \in RowRecord
      BY <1>2, Typed
    <3> QED  BY <2>5, <3>1 DEF RowRecord
  <2> HIDE DEF row
  <2>7. RowTrue(row, snapshot)
    <3>1. RowTrue(content[l], snapshot)
      BY <1>2 DEF IInv, Rows
    <3> QED  BY <2>3, <2>6, <3>1 DEF RowTrue
  <2>8. /\ content' \in [Lang -> RowRecord] /\ content'[l] = row
        /\ \A m \in Lang \ {l} : content'[m] = content[m]
    BY <1>2, <2>1, <2>6 DEF IInv, TypeOK
  <2>9. /\ task' \in [Lang -> Seq(Token)] /\ task'[l] = Remaining(w)
        /\ \A m \in Lang \ {l} : task'[m] = task[m]
    BY <1>2, <1>4, <2>1 DEF IInv, TypeOK
  <2>10. original' \in [text : Text, rev : Revision]
    BY <2>1 DEF IInv, TypeOK
  <2>11. PublicAgrees' /\ variant' \in Publication /\ federated' \in Publication
    <3>1. Publish(original', content')
      BY <2>1
    <3> QED  BY <1>1, <2>8, <2>10, <3>1, Published
  <2>12. Rows' /\ Drafts'
    BY <1>1, <2>1, <2>7, <2>8 DEF IInv, Rows, Drafts
  <2>13. /\ NoticeTrue' /\ notice' \in [Translator -> NoticeRecord]
         /\ original.rev = 0 => \A p \in Translator : notice'[p] = NoNotice
    <3>1. \A m \in Lang : Credits(content'[m], content[m])
      BY <2>4, <2>6, <2>8 DEF Credits
    <3>2. \A p \in Translator : Affected(p, content', draft', original.rev)
                                = Affected(p, content, draft, original.rev)
      BY <1>1, <3>1 DEF Affected, Credits
    <3> QED  BY <1>1, <2>1, <3>2, NoticesKept
  <2>14. Revisions'
    BY <2>1, <2>13 DEF IInv, Revisions
  <2>15. \A m \in Lang : content'[m].placeholder <=> content'[m].token # NoToken
    <3>1. ASSUME NEW m \in Lang \ {l}
          PROVE  content[m].placeholder <=> content[m].token # NoToken
      BY DEF IInv, TypeOK
    <3> QED  BY <2>6, <2>8, <3>1
  <2>16. TypeOK'
    BY <1>1, <1>3, <2>1, <2>8, <2>9, <2>10, <2>11, <2>13, <2>15 DEF IInv, TypeOK
  <2>17. PlaceholderBacked'
    <3> SUFFICES ASSUME NEW m \in Lang, content'[m].placeholder
                 PROVE  content'[m].token \in Range(task'[m]) \/ m \in abandoned'
      BY DEF PlaceholderBacked
    <3>1. m # l
      BY <2>6, <2>8
    <3> QED  BY <2>1, <2>8, <2>9, <3>1 DEF IInv, PlaceholderBacked
  <2>18. Executions' /\ Fences'
    <3>1. \A m \in Lang : content'[m] = content[m] \/ content'[m].token = NoToken
      BY <2>6, <2>8
    <3> QED  BY <1>5, <2>9, <3>1
  <2> QED  BY <2>11, <2>12, <2>13, <2>14, <2>16, <2>17, <2>18 DEF IInv
<1> QED  BY <1>6, <1>7

(* An attempt fails: the claim may be released, which no other execution   *)
(* that holds the lease has made.                                          *)
LEMMA FailIInv ==
    ASSUME IInv, NEW w \in Worker, NEW released \in BOOLEAN, FailTranslation(w, released)
    PROVE  IInv'
<1> DEFINE l == exec[w].lang
           t == exec[w].token
           c == exec[w].claim
           row == [content[l] EXCEPT !.stamp = Epoch]
           releases == released /\ JobRow(l, t, c)
<1>1. /\ ~Free(w) /\ exec' = [exec EXCEPT ![w] = IdleExec]
      /\ UNCHANGED <<article, draft, notice, access, task, abandoned, public>>
      /\ content' = IF releases THEN [content EXCEPT ![l] = row] ELSE content
  BY DEF FailTranslation
<1>2. l \in Lang /\ t # NoToken
  BY <1>1, Typed DEF Free
<1>3. /\ exec' \in [Worker -> ExecRecord]
      /\ exec'[w] = IdleExec /\ \A v \in Worker \ {w} : exec'[v] = exec[v]
      /\ \A v \in Worker : exec'[v] = IdleExec \/ GoesOn(exec'[v], exec[v])
  BY <1>1, ExecutionEnds
<1>4. /\ task' \in [Lang -> Seq(Token)] /\ abandoned' \subseteq Lang
      /\ UNCHANGED <<original, snapshot, allowed, censored>>
  BY <1>1 DEF IInv, TypeOK, article
<1>5. CASE releases
  <2>1. /\ content[l].placeholder /\ content[l].token = t
        /\ content[l].stamp = c
    <3>1. c # Epoch
      BY <1>2 DEF IInv, Executions, ExecTrue
    <3> QED  BY <1>5, <3>1 DEF JobRow
  <2>2. content[l].kind = "llm" /\ RowTrue(content[l], snapshot)
    BY <1>2, <2>1 DEF IInv, Rows, RowTrue
  <2>3. content' = [content EXCEPT ![l] = row]
    BY <1>1, <1>5
  <2>4. /\ row \in RowRecord /\ row.kind = content[l].kind /\ row.base = content[l].base
        /\ row.placeholder = content[l].placeholder /\ row.token = content[l].token
        /\ row.text = content[l].text /\ row.reviewed = content[l].reviewed
    <3>1. content[l] \in RowRecord
      BY <1>2, Typed
    <3> HIDE DEF l
    <3> QED  BY <3>1 DEF RowRecord
  <2> HIDE DEF row, l, t, c, releases
  <2>5. RowTrue(row, snapshot')
    BY <1>4, <2>2, <2>4 DEF RowTrue
  <2>6. ~Visible(content[l]) /\ ~Visible(row) /\ row.kind # "human"
    BY <2>1, <2>2, <2>4 DEF Visible
  <2>7. row.placeholder <=> row.token # NoToken
    BY <1>2, <2>4 DEF IInv, TypeOK
  <2>8. /\ PublicAgrees' /\ Rows' /\ Drafts' /\ Revisions' /\ NoticeTrue' /\ TypeOK'
    BY <1>1, <1>2, <1>3, <1>4, <2>3, <2>4, <2>5, <2>6, <2>7, UnseenChange
  <2>9. /\ content'[l] = row /\ \A m \in Lang \ {l} : content'[m] = content[m]
    BY <1>2, <2>3 DEF IInv, TypeOK
  <2>10. PlaceholderBacked'
    <3>1. \A m \in Lang : /\ content'[m].placeholder => content[m].placeholder
                          /\ content'[m].token = content[m].token
      BY <2>4, <2>9
    <3> QED  BY <1>1, <3>1 DEF IInv, PlaceholderBacked
  <2>11. ASSUME NEW v \in Worker, exec'[v].token # NoToken
         PROVE  LET m == exec[v].lang IN
                /\ content'[m].token = exec[v].token =>
                      /\ content[m].token = exec[v].token
                      /\ content'[m].text = content[m].text
                      /\ exec'[v].holds => content'[m].stamp = content[m].stamp
                /\ exec'[v].holds => task'[m] # <<>> /\ Head(task'[m]) = exec[v].token
    <3>1. v # w /\ exec'[v] = exec[v] /\ exec[v].lang \in Lang
      BY <1>3, <2>11, Typed, ConstantsTyped
    <3>2. ASSUME exec[v].holds, exec[v].lang = l, content[l].token = exec[v].token
          PROVE  FALSE
      <4>1. content[l].stamp = exec[v].claim
        BY <2>11, <3>1, <3>2 DEF IInv, Executions, ExecTrue
      <4>2. Apart(exec[v], exec[w])
        BY <3>1 DEF IInv, Fences
      <4> QED  BY <1>2, <2>1, <3>2, <4>1, <4>2 DEF Apart, t, c
    <3>3. exec[v].holds => /\ task[exec[v].lang] # <<>>
                           /\ Head(task[exec[v].lang]) = exec[v].token
      BY <2>11, <3>1 DEF IInv, Executions, ExecTrue
    <3> QED  BY <1>1, <2>4, <2>9, <3>1, <3>2, <3>3
  <2>12. Executions' /\ Fences'
    BY <1>3, <2>11, ExecutionsKept
  <2> QED  BY <2>8, <2>10, <2>12 DEF IInv
<1>6. CASE ~releases
  <2>1. content' = content
    BY <1>1, <1>6
  <2>2. /\ TypeOK' /\ PublicAgrees' /\ Rows' /\ Drafts' /\ Revisions' /\ NoticeTrue'
    BY <1>1, <1>3, <1>4, <2>1, OnlyJobs
  <2>3. PlaceholderBacked'
    BY <1>1, <2>1 DEF IInv, PlaceholderBacked
  <2>4. ASSUME NEW v \in Worker, exec'[v].token # NoToken, exec'[v].holds
        PROVE  task'[exec[v].lang] # <<>> /\ Head(task'[exec[v].lang]) = exec[v].token
    <3>1. exec'[v] = exec[v]
      BY <1>3, <2>4, ConstantsTyped
    <3> QED  BY <1>1, <2>4, <3>1 DEF IInv, Executions, ExecTrue
  <2>5. Executions' /\ Fences'
    <3>1. \A v \in Worker : exec'[v].token # NoToken => exec'[v].token = exec[v].token
      BY <1>3, ConstantsTyped
    <3> QED  BY <1>3, <2>1, <2>4, <3>1, ExecutionsKept
  <2> QED  BY <2>2, <2>3, <2>5 DEF IInv
<1> QED  BY <1>5, <1>6

-----------------------------------------------------------------------------
(* The specification. *)

(* An article just published, or one from before there were revisions,     *)
(* whose versions have no baseline.                                        *)
LEMMA InitIInv ==
    ASSUME Init
    PROVE  IInv
<1>1. /\ FirstText \in Text /\ 0 \in Revision /\ 1 \in Revision
      /\ SomebodyElse \in Person
  BY ArticleTranslationsAssumption DEF ArticleTranslationsAssumption, Revision, Person
<1>2. /\ original \in [text : Text, rev : Revision]
      /\ snapshot \in Seq(Text) /\ Len(snapshot) <= MaxRevision
      /\ Revisions
  <2>1. \A t \in Translator : notice[t] = NoNotice
    BY DEF Init
  <2>2. CASE original = [text |-> FirstText, rev |-> 1] /\ snapshot = <<FirstText>>
    BY <1>1, <2>2, ArticleTranslationsAssumption
    DEF Revisions, ArticleTranslationsAssumption
  <2>3. CASE original = [text |-> FirstText, rev |-> 0] /\ snapshot = <<>>
    BY <1>1, <2>1, <2>3, ArticleTranslationsAssumption
    DEF Revisions, ArticleTranslationsAssumption
  <2> QED  BY <2>2, <2>3 DEF Init
<1>3. \A l \in Lang :
         \/ content[l] = NoRow
         \/ \E t \in Translator :
               content[l] = [NoRow EXCEPT !.kind = "human", !.translator = t]
  BY DEF Init
<1>4. content \in [Lang -> RowRecord]
  <2>1. \A t \in Translator :
           [NoRow EXCEPT !.kind = "human", !.translator = t] \in RowRecord
    BY <1>1 DEF NoRow, RowRecord, Person
  <2>2. \A l \in Lang : content[l] \in RowRecord
    BY <1>3, <2>1, ConstantsTyped
  <2>3. content = [l \in Lang |-> content[l]]
    BY DEF Init
  <2> QED  BY <2>2, <2>3
<1>5. \A l \in Lang : /\ content[l].placeholder = FALSE /\ content[l].token = NoToken
                      /\ content[l].base = 0 /\ content[l].kind # "llm"
  <2>1. /\ NoRow.placeholder = FALSE /\ NoRow.token = NoToken
        /\ NoRow.base = 0 /\ NoRow.kind = "none"
    BY DEF NoRow
  <2>2. ASSUME NEW l \in Lang, NEW t \in Translator,
               content[l] = [NoRow EXCEPT !.kind = "human", !.translator = t]
        PROVE  /\ content[l].placeholder = FALSE /\ content[l].token = NoToken
               /\ content[l].base = 0 /\ content[l].kind = "human"
    BY <2>2 DEF NoRow
  <2> QED  BY <1>3, <2>1, <2>2
<1>6. Len(snapshot) \in Nat
  BY <1>2
<1>7. Rows
  BY <1>5, <1>6 DEF Rows, RowTrue
<1>8. draft \in [Lang -> DraftRecord] /\ Drafts
  <2>1. draft = [l \in Lang |-> NoDraft]
    BY DEF Init
  <2>2. NoDraft.base = 0
    BY DEF NoDraft
  <2> QED  BY <1>6, <2>1, <2>2, ConstantsTyped DEF Drafts
<1>9. /\ notice \in [Translator -> NoticeRecord] /\ NoticeTrue
  BY ConstantsTyped DEF Init, NoticeTrue
<1>10. /\ exec \in [Worker -> ExecRecord] /\ Executions /\ Fences
  BY ConstantsTyped DEF Init, Executions, ExecTrue, Fences, Apart
<1>11. Public(original, content) \in Publication
  BY <1>2, <1>4, PublicTyped
<1>12. variant = Public(original, content) /\ federated = variant
  BY DEF Init
<1>13. \A l \in Lang : (content[l].placeholder <=> content[l].token # NoToken)
  BY <1>5
<1>14. /\ allowed \in BOOLEAN /\ censored \in BOOLEAN /\ access \subseteq Translator
       /\ task \in [Lang -> Seq(Token)] /\ abandoned \subseteq Lang
  <2>1. allowed \in BOOLEAN /\ censored \in BOOLEAN
    BY DEF Init
  <2>2. access \subseteq Translator /\ abandoned \subseteq Lang
    BY DEF Init
  <2>3. task = [l \in Lang |-> <<>>]
    BY DEF Init
  <2> QED  BY <2>1, <2>2, <2>3
<1>15. TypeOK
  BY <1>2, <1>4, <1>8, <1>9, <1>10, <1>11, <1>12, <1>13, <1>14 DEF TypeOK
<1>16. PublicAgrees
  BY <1>5, <1>12 DEF PublicAgrees
<1>17. PlaceholderBacked
  BY <1>5 DEF PlaceholderBacked
<1> QED  BY <1>2, <1>7, <1>8, <1>9, <1>10, <1>15, <1>16, <1>17 DEF IInv

(* Every step keeps the invariant.                                         *)
LEMMA NextIInv ==
    ASSUME IInv, [Next]_vars
    PROVE  IInv'
<1>1. CASE UNCHANGED vars
  BY <1>1 DEF vars, article, jobs, public, IInv, TypeOK, PublicAgrees, Rows, Drafts,
              Revisions, NoticeTrue, Affected, PlaceholderBacked, Executions, Fences,
              Public
<1>2. ASSUME NEW text \in Text, NEW allow \in BOOLEAN, NEW p \in Person,
             UpdateArticle(text, allow, p)
      PROVE  IInv'
  BY <1>2, UpdateArticleIInv
<1>3. ASSUME NEW l \in Lang, NEW text \in Text, StartArticleContentTranslation(l, text)
      PROVE  IInv'
  BY <1>3, StartIInv
<1>4. ASSUME NEW w \in Worker, NEW l \in Lang, BeginTranslation(w, l)
      PROVE  IInv'
  BY <1>4, BeginIInv
<1>5. ASSUME NEW w \in Worker, FinishTranslation(w)
      PROVE  IInv'
  BY <1>5, FinishIInv
<1>6. ASSUME NEW w \in Worker, NEW b \in BOOLEAN, FailTranslation(w, b)
      PROVE  IInv'
  BY <1>6, FailIInv
<1>7. ASSUME NEW l \in Lang, TaskDies(l)
      PROVE  IInv'
  BY <1>7, TaskDiesIInv
<1>8. ASSUME NEW l \in Lang, NEW p \in Person, CreateDraft(l, p)
      PROVE  IInv'
  BY <1>8, CreateDraftIInv
<1>9. ASSUME NEW l \in Lang, NEW p \in Person, CreditDraft(l, p) \/ DeleteDraft(l)
      PROVE  IInv'
  BY <1>9, DraftIInv
<1>10. ASSUME NEW l \in Lang, DeleteDraft(l)
       PROVE  IInv'
  <2>1. SomebodyElse \in Person
    BY DEF Person
  <2> QED  BY <1>9, <1>10, <2>1
<1>11. ASSUME NEW l \in Lang, NEW r \in Revision, PublishTranslation(l, r)
       PROVE  IInv'
  BY <1>11, PublishIInv
<1>12. ASSUME NEW l \in Lang, NEW r \in Revision, Acknowledge(l, r)
       PROVE  IInv'
  BY <1>12, AcknowledgeIInv
<1>13. ASSUME NEW l \in Lang, Withdraw(l)
       PROVE  IInv'
  BY <1>13, WithdrawIInv
<1>14. ASSUME NEW t \in Translator, LoseAccess(t) \/ GainAccess(t)
       PROVE  IInv'
  BY <1>14, AccessIInv
<1> HIDE DEF IInv
<1> QED  BY <1>1, <1>2, <1>3, <1>4, <1>5, <1>6, <1>7, <1>8, <1>9, <1>10, <1>11, <1>12,
            <1>13, <1>14 DEF Next

(* The invariant holds always.                                             *)
LEMMA AlwaysIInv == Spec => []IInv
<1>1. Init => IInv
  BY InitIInv
<1>2. IInv /\ [Next]_vars => IInv'
  BY NextIInv
<1> QED  BY <1>1, <1>2, PTL DEF Spec

(* The variables have their types, and a row has a token exactly as long   *)
(* as it is a placeholder.                                                 *)
THEOREM TypeCorrect == Spec => []TypeOK
<1>1. IInv => TypeOK
  BY DEF IInv
<1> QED  BY <1>1, AlwaysIInv, PTL

(* publishArticleState and its callers: what readers see is the present    *)
(* state, so is the last Update that peers were sent, and placeholders are *)
(* in neither.                                                             *)
THEOREM PublicAgreement == Spec => []PublicAgrees
<1>1. IInv => PublicAgrees
  BY DEF IInv
<1> QED  BY <1>1, AlwaysIInv, PTL

(* applyArticleContentTranslation: whatever edits, reclaims and late       *)
(* answers cross, an automatic version is a translation of the revision    *)
(* that it names.                                                          *)
THEOREM FreshnessIsHonest == Spec => []FreshnessHonest
<1>1. IInv => FreshnessHonest
  BY DEF IInv, Rows, RowTrue, FreshnessHonest
<1> QED  BY <1>1, AlwaysIInv, PTL

(* syncTranslationReviewNotifications: an outstanding notification names   *)
(* the newest revision and exactly the languages that await review by one  *)
(* who has access.                                                         *)
THEOREM NoticesTrue == Spec => []NoticeTrue
<1>1. IInv => NoticeTrue
  BY DEF IInv
<1> QED  BY <1>1, AlwaysIInv, PTL

(* startArticleContentTranslation and the tasks: a placeholder has a task  *)
(* to come, unless the task is a dead letter.                              *)
THEOREM PlaceholdersBacked == Spec => []PlaceholderBacked
<1>1. IInv => PlaceholderBacked
  BY DEF IInv
<1> QED  BY <1>1, AlwaysIInv, PTL

(* The row that a job writes is one with the token of the job, which none  *)
(* that a person published has.                                            *)
LEMMA JobRows ==
    ASSUME IInv, NEW l \in Lang, NEW t, NEW c, JobRow(l, t, c)
    PROVE  content[l].kind = "llm"
  BY DEF JobRow, IInv, Rows, RowTrue

(* Only a withdrawal takes away what a person published.                   *)
LEMMA HumanStep ==
    ASSUME IInv, [Next]_vars, NEW m \in Lang,
           content[m].kind = "human", content'[m].kind # "human"
    PROVE  Withdraw(m)
<1>1. content \in [Lang -> RowRecord]
  BY DEF IInv, TypeOK
<1>2. content' # content
  OBVIOUS
<1>3. Next
  BY <1>2 DEF vars
<1>4. ASSUME NEW text \in Text, NEW allow \in BOOLEAN, NEW p \in Person,
             UpdateArticle(text, allow, p)
      PROVE  FALSE
  <2>1. PICK rev, token : content' = Restarted(text, rev, token)
    BY <1>2, <1>4 DEF UpdateArticle
  <2> QED  BY <2>1 DEF Restarted, Automatic
<1>5. ASSUME NEW l \in Lang, NEW text \in Text, StartArticleContentTranslation(l, text)
      PROVE  FALSE
  <2>1. PICK row : content' = [content EXCEPT ![l] = row]
    BY <1>5 DEF StartArticleContentTranslation
  <2>2. content[l].kind # "human"
    BY <1>5 DEF StartArticleContentTranslation, Reclaimable, IInv, Rows, RowTrue
  <2> QED  BY <1>1, <2>1, <2>2
<1>6. ASSUME NEW l \in Lang, NEW t, NEW c, NEW tasks, Ineligible(l, t, c, tasks)
      PROVE  FALSE
  <2>1. CASE JobRow(l, t, c) /\ allowed
    <3>1. PICK row : content' = [content EXCEPT ![l] = row]
      BY <1>6, <2>1 DEF Ineligible
    <3>2. content[l].kind = "llm"
      BY <2>1, JobRows
    <3> QED  BY <1>1, <3>1, <3>2
  <2>2. CASE ~(JobRow(l, t, c) /\ allowed)
    <3>1. \/ content' = content
          \/ JobRow(l, t, c) /\ content' = [content EXCEPT ![l] = NoRow]
      BY <1>6, <2>2 DEF Ineligible
    <3>2. JobRow(l, t, c) => content[l].kind = "llm"
      BY JobRows
    <3> QED  BY <1>1, <3>1, <3>2
  <2> QED  BY <2>1, <2>2
<1>7. ASSUME NEW w \in Worker, NEW l \in Lang, BeginTranslation(w, l)
      PROVE  FALSE
  <2> DEFINE t == Head(task[l])
  <2>1. CASE Eligible(l, t, Epoch)
    <3>1. JobRow(l, t, Epoch)
      BY <2>1 DEF Eligible
    <3>2. PICK row : content' = [content EXCEPT ![l] = row]
      BY <1>7, <2>1 DEF BeginTranslation
    <3>3. content[l].kind = "llm"
      BY <3>1, JobRows
    <3> QED  BY <1>1, <3>2, <3>3
  <2>2. CASE ~Eligible(l, t, Epoch)
    <3>1. Ineligible(l, t, Epoch, Tail(task[l]))
      BY <1>7, <2>2 DEF BeginTranslation
    <3> QED  BY <1>6, <3>1
  <2> QED  BY <2>1, <2>2
<1>8. ASSUME NEW w \in Worker, FinishTranslation(w)
      PROVE  FALSE
  <2> DEFINE l == exec[w].lang
  <2>1. l \in Lang
    BY Typed
  <2>2. CASE Eligible(l, exec[w].token, exec[w].claim)
    <3>1. JobRow(l, exec[w].token, exec[w].claim)
      BY <2>2 DEF Eligible
    <3>2. PICK row : content' = [content EXCEPT ![l] = row]
      BY <1>8, <2>2 DEF FinishTranslation, Filled
    <3>3. content[l].kind = "llm"
      BY <2>1, <3>1, JobRows
    <3> QED  BY <1>1, <3>2, <3>3
  <2>3. CASE ~Eligible(l, exec[w].token, exec[w].claim)
    <3>1. Ineligible(l, exec[w].token, exec[w].claim, Remaining(w))
      BY <1>8, <2>3 DEF FinishTranslation
    <3> QED  BY <1>6, <2>1, <3>1
  <2> QED  BY <2>2, <2>3
<1>9. ASSUME NEW w \in Worker, NEW b \in BOOLEAN, FailTranslation(w, b)
      PROVE  FALSE
  <2> DEFINE l == exec[w].lang
  <2>1. l \in Lang
    BY Typed
  <2>2. PICK row :
           \/ content' = content
           \/ /\ JobRow(l, exec[w].token, exec[w].claim)
              /\ content' = [content EXCEPT ![l] = row]
    BY <1>9 DEF FailTranslation
  <2>3. JobRow(l, exec[w].token, exec[w].claim) => content[l].kind = "llm"
    BY <2>1, JobRows
  <2> QED  BY <1>1, <2>2, <2>3
<1>10. ASSUME NEW l \in Lang, NEW r \in Revision, PublishTranslation(l, r)
       PROVE  FALSE
  <2>1. PICK b : content' = [content EXCEPT ![l] = PublishedRow(l, b)]
    BY <1>10 DEF PublishTranslation
  <2>2. PublishedRow(l, b).kind = "human"
    BY DEF PublishedRow, NoRow
  <2> QED  BY <1>1, <2>1, <2>2
<1>11. ASSUME NEW l \in Lang, NEW r \in Revision, Acknowledge(l, r)
       PROVE  FALSE
  <2>1. content' = [content EXCEPT ![l].base = r, ![l].reviewed = content[l].kind = "llm"]
    BY <1>2, <1>11 DEF Acknowledge
  <2>2. content[m] \in RowRecord
    BY <1>1
  <2> QED  BY <1>1, <2>1, <2>2 DEF RowRecord
<1>12. ASSUME NEW l \in Lang, Withdraw(l)
       PROVE  l = m
  BY <1>1, <1>12 DEF Withdraw
<1>13. ASSUME NEW l \in Lang, NEW p \in Person, CreateDraft(l, p) \/ CreditDraft(l, p)
       PROVE  FALSE
  BY <1>2, <1>13 DEF CreateDraft, CreditDraft
<1>14. ASSUME NEW l \in Lang, TaskDies(l) \/ DeleteDraft(l)
       PROVE  FALSE
  BY <1>2, <1>14 DEF TaskDies, DeleteDraft
<1>15. ASSUME NEW t \in Translator, LoseAccess(t) \/ GainAccess(t)
       PROVE  FALSE
  BY <1>2, <1>15 DEF LoseAccess, GainAccess
<1> QED  BY <1>3, <1>4, <1>5, <1>7, <1>8, <1>9, <1>10, <1>11, <1>12, <1>13, <1>14,
            <1>15 DEF Next

(* What a person published stays until a person replaces or withdraws it:  *)
(* no job that was started before, is retried or answers late takes it.    *)
THEOREM HumanTextsKept == Spec => HumanTextKept
<1> DEFINE Kept == \A l \in Lang :
              content[l].kind = "human" /\ content'[l].kind # "human" => Withdraw(l)
<1>1. IInv /\ [Next]_vars => [Kept]_vars
  BY HumanStep
<1>2. Spec => [][Kept]_vars
  BY <1>1, AlwaysIInv, PTL DEF Spec
<1> QED  BY <1>2 DEF HumanTextKept

=============================================================================
