------------------------------- MODULE Sitemap -------------------------------
(***************************************************************************)
(* Expanding a sitemap into scan targets (sitemap.py, called by            *)
(* _discover_sitemap in cli.py): one request for the sitemap, one for each *)
(* of the first MaxChildSitemaps children of an index, one after the other. *)
(*                                                                          *)
(* A document is what a request brought: nothing (blocked or failed), text *)
(* that does not parse, a list of pages or an index of other sitemaps.     *)
(***************************************************************************)
EXTENDS Integers, FiniteSets, SequencesExt

CONSTANTS
  Root,             \* the URL given with --sitemap
  DocumentsAt,      \* URL -> the documents a request for it may bring
  Caps,             \* values of --max-urls; the option has no lower bound
  MaxChildSitemaps

Url == DOMAIN DocumentsAt

Document == [kind : {"none", "malformed", "urlset", "index"}, locs : Seq(Url)]

ASSUME CapsAssumption == Caps \subseteq Int /\ MaxChildSitemaps \in Nat

ASSUME DocumentsAssumption == Root \in Url /\ \A url \in Url : DocumentsAt[url] \subseteq Document

VARIABLES
  pc,        \* "root", "children", "done" or "error"
  maxUrls,   \* the cap of this run
  children,  \* child_sitemaps[:MAX_CHILD_SITEMAPS]
  next,      \* index of the next one
  ordered,   \* page URLs so far
  truncated, \* the flag returned
  read       \* history variable: the requests made and what they brought

vars == <<pc, maxUrls, children, next, ordered, truncated, read>>

Nothing == [kind |-> "none", locs |-> <<>>]
Malformed == [kind |-> "malformed", locs |-> <<>>]
Urlset(locs) == [kind |-> "urlset", locs |-> locs]
Index(locs) == [kind |-> "index", locs |-> locs]

(* parse_sitemap, on a document that parses. *)
PagesOf(doc) == IF doc.kind = "urlset" THEN doc.locs ELSE <<>>
ChildrenOf(doc) == IF doc.kind = "index" THEN doc.locs ELSE <<>>

Slice_OneMore(seq, n) == SubSeq(seq, 1, IF n < Len(seq) THEN n + 1 ELSE Len(seq))

(* seq[:n], which counts from the end when n is negative. *)
Slice(seq, n) ==
  LET stop == IF n >= 0 THEN n ELSE Len(seq) + n
  IN  SubSeq(seq, 1, IF stop < Len(seq) THEN stop ELSE Len(seq))

Considered(listed) == Slice(listed, MaxChildSitemaps)

WithNew_Repeats(pages, more) == pages \o more

(* Append the URLs not seen yet. *)
WithNew(pages, more) ==
  FoldLeft(LAMBDA kept, url : IF Contains(kept, url) THEN kept ELSE Append(kept, url),
           pages, more)

Full_OffByOne(pages) == Len(pages) > maxUrls - 2

Full(pages) == Len(pages) >= maxUrls

Truncated_AtCap(pages) == Len(pages) >= maxUrls

Truncated(pages) == Len(pages) > maxUrls

Init ==
  /\ pc = "root" /\ maxUrls \in Caps
  /\ children = <<>> /\ next = 1 /\ ordered = <<>> /\ truncated = FALSE
  /\ read = <<>>

(* A request through the fetcher, and SitemapError for a text that does not  *)
(* parse, which ends the whole discovery.                                    *)
Request(url, doc) ==
  /\ doc \in DocumentsAt[url]
  /\ read' = Append(read, [url |-> url, doc |-> doc])

FetchRoot ==
  /\ pc = "root"
  /\ \E doc \in DocumentsAt[Root] :
       /\ Request(Root, doc)
       /\ pc' = CASE doc.kind = "none" -> "done"
                  [] doc.kind = "malformed" -> "error"
                  [] OTHER -> "children"
       /\ ordered' = PagesOf(doc)
       /\ children' = Considered(ChildrenOf(doc))
  /\ UNCHANGED <<maxUrls, next, truncated>>

FetchChild ==
  /\ pc = "children" /\ next <= Len(children) /\ ~Full(ordered)
  /\ \E doc \in DocumentsAt[children[next]] :
       /\ Request(children[next], doc)
       /\ pc' = IF doc.kind = "malformed" THEN "error" ELSE pc
       /\ ordered' = WithNew(ordered, PagesOf(doc))
  /\ next' = next + 1
  /\ UNCHANGED <<maxUrls, children, truncated>>

Return ==
  /\ pc = "children" /\ (next > Len(children) \/ Full(ordered))
  /\ pc' = "done"
  /\ truncated' = Truncated(ordered)
  /\ ordered' = Slice(ordered, maxUrls)
  /\ UNCHANGED <<maxUrls, children, next, read>>

Next == FetchRoot \/ FetchChild \/ Return

Fairness == WF_vars(Next)

Spec == Init /\ [][Next]_vars /\ Fairness

-----------------------------------------------------------------------------
TypeOK ==
  /\ pc \in {"root", "children", "done", "error"}
  /\ maxUrls \in Caps
  /\ read \in Seq([url : Url, doc : Document])
  /\ children \in Seq(Url) /\ Len(children) <= MaxChildSitemaps
  /\ ordered \in Seq(Url)
  /\ next \in 1..(Len(children) + 1)
  /\ truncated \in BOOLEAN

Discovered == pc = "done" /\ read[1].doc.kind # "none"

(* What is at some places of a sequence. *)
AtPlaces(pages, places) ==
  [k \in 1..Cardinality(places) |->
     pages[CHOOSE i \in places : Cardinality({j \in places : j < i}) = k - 1]]

(* All the documents read, put together without a cap: a list of pages as it *)
(* stands, the children of an index without what was listed before.          *)
AllPages == FlattenSeq([i \in DOMAIN read |-> PagesOf(read[i].doc)])

FirstPlaces(pages) == {i \in DOMAIN pages : \A j \in 1..(i - 1) : pages[j] # pages[i]}

Listed ==
  AtPlaces(AllPages, IF read[1].doc.kind = "urlset" THEN DOMAIN AllPages ELSE FirstPlaces(AllPages))

(* Whatever fails on the way and wherever the loop stops, the result is what *)
(* the documents read list, in their order, cut once at the end.             *)
ResultIsSlice == Discovered => ordered = Slice(Listed, maxUrls)

(* Stopping early, or after a child that failed, costs no target: the result *)
(* is as long as it may be, or every child was asked for, once and in order. *)
NoChildMissed ==
  Discovered /\ maxUrls >= 0 =>
    \/ Len(ordered) = maxUrls
    \/ Tail([i \in DOMAIN read |-> read[i].url]) =
         Slice(ChildrenOf(read[1].doc), MaxChildSitemaps)

(* sitemap.py:10-12: the site decides neither how many requests are made nor *)
(* how many targets the scan gets.                                           *)
Bounded ==
  /\ Len(read) <= 1 + MaxChildSitemaps
  /\ pc = "done" /\ maxUrls >= 0 => Len(ordered) <= maxUrls

(* What the cap cost: pages of the documents read, or children never asked.  *)
PagesCut == Len(Listed) > Len(ordered)
ChildrenUnread == Len(read) < 1 + Len(Considered(ChildrenOf(read[1].doc)))

(* sitemap.py:66-70: the caller is told of every page that was read and then *)
(* cut off, up to the exact page, and is never told of a loss without one.   *)
(* Of a cap that is met exactly with children unread this says nothing: by   *)
(* the docstring the flag would be up, in the code (sitemap.py:93) it is not. *)
FlagMeansDropped ==
  Discovered /\ maxUrls >= 0 =>
    /\ PagesCut => truncated
    /\ truncated => PagesCut \/ ChildrenUnread
=============================================================================
