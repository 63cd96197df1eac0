--------------------------- MODULE MCLoaderHooks ---------------------------
(* The instance of LoaderHooks for TLC. *)
EXTENDS LoaderHooks

\* Room for two mappings that are never given back and a third; with pages 4
\* or 3 and 7 in use, room for two or for one.
MCUsedPages == {{}, {4}, {3, 7}}
=============================================================================
