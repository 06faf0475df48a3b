------------------------------ MODULE MCSitemap ------------------------------
(* Small instances of Sitemap for TLC: pages a, b, c and child sitemaps, one  *)
(* of which lists itself, one of which may fail or not parse.                 *)
EXTENDS Sitemap

CONSTANTS root, a, b, c, first, second, third

MCDocumentsAt ==
  (root :> {Nothing, Malformed, Urlset(<<a, b, c>>), Urlset(<<a, b, a>>),
            Index(<<first, second, third>>),
            Index(<<second, first, second>>), Index(<<>>)})
  @@ (first :> {Urlset(<<a, b>>), Index(<<first>>), Nothing})
  @@ (second :> {Urlset(<<b, c>>), Urlset(<<b>>), Malformed, Nothing})
  @@ (third :> {Urlset(<<a, c, a>>), Nothing})
  @@ (a :> {Nothing}) @@ (b :> {Nothing}) @@ (c :> {Nothing})

MCCaps == -1..4
=============================================================================
