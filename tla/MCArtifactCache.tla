--------------------------- MODULE MCArtifactCache ---------------------------
(***************************************************************************)
(* An image and a runtime binary, one MicroVM, two published versions and  *)
(* two calls of one process: the smallest instance in which a download can *)
(* race another download, a prune and a creation over the same file.  A    *)
(* kernel is treated like an image at every step; the instance has one of  *)
(* the two.                                                                *)
(***************************************************************************)
EXTENDS ArtifactCache, TLC

CONSTANTS c1, c2, q1, image, firecracker, firectl

TwoClients == {c1, c2}
AllMembers == {image, firecracker, firectl}
Kinds == image :> "image" @@ firecracker :> "binary" @@ firectl :> "binary"
Packages == c1 :> {<<image>>, <<firecracker, firectl>>} @@ c2 :> {<<image>>}
ImageAndBinaries == <<image, firecracker, firectl>>
PrunableOrder == <<image>>
TwoReleases == <<"v1", "v2">>
OneProcess == c1 :> q1 @@ c2 :> q1

(* One call only downloads: whatever else runs, a download runs beside it. *)
DownloadBesideAll == c1 :> {"download"} @@ c2 :> CacheOps
=============================================================================
