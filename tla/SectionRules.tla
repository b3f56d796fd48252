---------------------------- MODULE SectionRules ----------------------------
(***************************************************************************)
(* How the tagger labels the entries of a table of contents: keywords lock *)
(* some labels, a language model proposes the others, children inherit,    *)
(* and nine rules of order are laid over the whole, one after the other.   *)
(* An entry is [title, level, page, front]; page 0 stands for no page, and *)
(* front for the parser's mark [Front].  A title is known by the labels    *)
(* whose patterns it matches.                                              *)
(***************************************************************************)
EXTENDS Integers, Sequences, FiniteSetsExt

CONSTANTS
    Titles,
    Matches,        \* [Titles -> SUBSET Labels]
    SaysAnnex,      \* SUBSET Titles: "annex", "appendix", "attachment", ...
    Unlabelled

\* The order in which the keyword rules are tried.
RuleOrder ==
    <<"front_matter", "acronyms", "executive_summary", "recommendations", "conclusions",
      "methodology", "introduction", "context", "appendix", "findings", "bibliography",
      "annexes">>

Labels == {RuleOrder[k] : k \in DOMAIN RuleOrder} \union {"other"}

ASSUME TitlesAssumption ==
    /\ Matches \in [Titles -> SUBSET Labels]
    /\ SaysAnnex \subseteq {t \in Titles : "annexes" \in Matches[t]}
    /\ Unlabelled \notin Labels

Says(e, l) == l \in Matches[e.title]

Locked(e) ==
    LET hits == {k \in DOMAIN RuleOrder : Says(e, RuleOrder[k])}
    IN  IF hits = {} THEN Unlabelled ELSE RuleOrder[Min(hits)]

\* Whatever the model answers, or fails to: only entries without a lock are its.
Proposals(es, guesses) ==
    {[i \in DOMAIN es |-> IF Locked(es[i]) = Unlabelled THEN g[i] ELSE Locked(es[i])] :
        g \in [DOMAIN es -> guesses \union {Unlabelled}]}

-----------------------------------------------------------------------------
(* Inheritance *)

\* The entry on top of the stack of open levels.
Parent(es, i) == Max({0} \union {j \in 1 .. i - 1 : es[j].level < es[i].level})

StrongContainers ==
    {"executive_summary", "findings", "methodology", "recommendations", "introduction",
     "context", "annexes", "appendix", "bibliography", "acronyms"}

MayOverride(e, own, up) ==
    /\ Says(e, own)
    /\ \/ up = "findings" /\ own \in {"recommendations", "conclusions"}
       \/ up = "recommendations" /\ own = "conclusions"
       \/ up = "conclusions" /\ own = "recommendations"
       \/ /\ up \in {"findings", "recommendations", "conclusions"}
          /\ own \in {"annexes", "appendix", "bibliography"}

Inherited(e, own, up) ==
    IF up \in StrongContainers
    THEN IF MayOverride(e, own, up) THEN own ELSE up
    ELSE IF own = "other" /\ up # Unlabelled THEN up ELSE own

Propagated(es, ls) ==
    LET label[i \in DOMAIN es] ==
            LET up == Parent(es, i)
            IN  Inherited(es[i], IF ls[i] = Unlabelled THEN "other" ELSE ls[i],
                          IF up = 0 THEN Unlabelled ELSE label[up])
    IN  label

-----------------------------------------------------------------------------
(* The rules of order.  total is the number of pages, 0 if unknown. *)

FrontLabels == {"front_matter", "executive_summary", "acronyms"}

InFirstThird(e, total) == e.page # 0 /\ total # 0 /\ 3 * e.page <= total
PastFirstThird(e, total) == e.page # 0 /\ total # 0 /\ 3 * e.page > total

FrontMatterBoundary(es, total, ls) ==
    [i \in DOMAIN es |->
        IF InFirstThird(es[i], total) /\ Says(es[i], "annexes") THEN "front_matter"
        ELSE IF PastFirstThird(es[i], total) /\ ls[i] = "front_matter" THEN "other"
        ELSE ls[i]]

\* _find_roman_page_range
FrontPages(es) == {es[i].page : i \in {j \in DOMAIN es : es[j].front}} \ {0}
WithinFront(es, i) == FrontPages(es) # {} /\ es[i].page # 0 /\ es[i].page <= Max(FrontPages(es))
AmongFront(es, i) == WithinFront(es, i) /\ es[i].page >= Min(FrontPages(es))

\* both _apply_roman_front_matter_restrictions and .._boundary_allowed_labels
FrontRestricted(es, ls) ==
    [i \in DOMAIN es |->
        IF WithinFront(es, i) /\ ls[i] \notin FrontLabels THEN "front_matter" ELSE ls[i]]

BoundaryReset(es, ls) ==
    LET label[i \in DOMAIN es] ==
            IF FrontPages(es) = {} \/ es[i].page = 0 \/ WithinFront(es, i) THEN ls[i]
            ELSE IF Parent(es, i) # 0 /\ label[Parent(es, i)] = "executive_summary"
                 THEN "executive_summary"
            ELSE IF Says(es[i], "executive_summary") THEN "executive_summary"
            ELSE IF Says(es[i], "acronyms") THEN "acronyms"
            ELSE IF ls[i] \in FrontLabels THEN "other"
            ELSE ls[i]
    IN  label

SummaryDominance(es, ls) ==
    LET starts == {i \in DOMAIN es : /\ AmongFront(es, i)
                                     /\ \/ ls[i] = "executive_summary"
                                        \/ Says(es[i], "executive_summary")}
        block(i) == IF Says(es[i], "front_matter") THEN "front_matter"
                    ELSE IF Says(es[i], "acronyms") THEN "acronyms"
                    ELSE "executive_summary"
    IN  [i \in DOMAIN es |->
            IF starts = {} \/ ~AmongFront(es, i) \/ i < Min(starts) THEN ls[i]
            ELSE IF i = Min(starts) THEN "executive_summary"
            ELSE block(i)]

ExplicitAnnexes(es, ls) ==
    [i \in DOMAIN es |->
        IF es[i].title \in SaysAnnex /\ ls[i] # "front_matter" THEN "annexes" ELSE ls[i]]

PreAnnex ==
    {"front_matter", "executive_summary", "acronyms", "introduction", "context",
     "methodology", "findings", "recommendations", "conclusions"}

AnnexBoundary(es, ls) ==
    LET annexes == {i \in DOMAIN es : ls[i] = "annexes"}
    IN  [i \in DOMAIN es |->
            IF annexes # {} /\ i > Min(annexes) /\ ls[i] \in PreAnnex THEN "annexes"
            ELSE ls[i]]

SummaryUniqueness(es, ls) ==
    LET summary == {i \in DOMAIN es : ls[i] = "executive_summary"}
        later(i) == \E j \in DOMAIN es \ summary : Min(summary) < j /\ j < i
    IN  [i \in DOMAIN es |-> IF i \in summary /\ later(i) THEN "findings" ELSE ls[i]]

FrontNeedsFrontPages(es, total, ls) ==
    [i \in DOMAIN es |->
        IF /\ ls[i] = "front_matter" /\ ~es[i].front
           /\ ~(InFirstThird(es[i], total) /\ Says(es[i], "front_matter"))
        THEN "other" ELSE ls[i]]

SettledLate(es, total, ls) ==   \* mutant: the boundary is drawn before titles are read
    FrontNeedsFrontPages(es, total,
        SummaryUniqueness(es, ExplicitAnnexes(es, AnnexBoundary(es, ls))))

\* The rules about annexes, and what they leave to be set right.
Settled(es, total, ls) ==
    FrontNeedsFrontPages(es, total,
        SummaryUniqueness(es, AnnexBoundary(es, ExplicitAnnexes(es, ls))))

\* apply_sequence_rules
Sequenced(es, total, ls) ==
    IF total \in 1 .. 3 THEN [i \in DOMAIN es |-> "executive_summary"]
    ELSE Settled(es, total,
            FrontRestricted(es, SummaryDominance(es, BoundaryReset(es,
                FrontRestricted(es, FrontMatterBoundary(es, total, ls))))))

\* _compute_document_toc_labels, for a proposal of the model
Classified(es, total, ls) == Sequenced(es, total, Propagated(es, ls))

-----------------------------------------------------------------------------
(* What the rules promise of their outcome *)

NothingBeforeAnnexes(es, ls) ==
    \A i, j \in DOMAIN es : i < j /\ ls[i] = "annexes" => ls[j] \notin PreAnnex

OneSummary(es, ls) ==
    \A i, j, k \in DOMAIN es :
        /\ i < j /\ j < k
        /\ ls[i] = "executive_summary" /\ ls[k] = "executive_summary"
        => ls[j] = "executive_summary"
=============================================================================
