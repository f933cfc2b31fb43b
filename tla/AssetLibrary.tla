---------------------------- MODULE AssetLibrary ----------------------------
(* User assets (api/routers/assets.py, db/asset_repository.py): one content, *)
(* hence one row (content_hash is UNIQUE) and one file named by the hash.    *)
EXTENDS MediaCalls

VARIABLES
  asset,      \* the row: "absent", "active" or "deleted"
  assetFile,  \* the file: "none", "partial" or "complete"
  assetCall,  \* assetCall[r]: place of upload or delete r
  assetRaced  \* history: an upload missed the row that another was making

assetVars == <<asset, assetFile, assetCall, assetRaced>>

AssetInit ==
  /\ asset = "absent" /\ assetFile = "none"
  /\ assetCall = [r \in Calls |-> "none"]
  /\ assetRaced = FALSE

AssetGoes(r, pc) == assetCall' = [assetCall EXCEPT ![r] = pc]
Uploading == {r \in Calls : assetCall[r] \in {"write", "writing", "insert"}}

(* upload_asset after its validation, whose last await reads the row: a known*)
(* content is answered, or restored, before the disk is touched.             *)
AssetUpload ==
  /\ Called
  /\ assetCall' = [assetCall EXCEPT ![calls'] =
       CASE asset = "active" -> "done" [] asset = "deleted" -> "restore" [] OTHER -> "write"]
  /\ assetRaced' = (assetRaced \/ (asset = "absent" /\ Uploading # {}))
  /\ UNCHANGED <<asset, assetFile>>

(* write_bytes, in a thread, truncates first.                                *)
AssetTruncate(r) ==
  /\ assetCall[r] = "write"
  /\ assetFile' = "partial"
  /\ AssetGoes(r, "writing")
  /\ UNCHANGED <<asset, assetRaced>>

AssetWritten(r) ==
  /\ assetCall[r] = "writing"
  /\ assetFile' = "complete"
  /\ AssetGoes(r, "insert")
  /\ UNCHANGED <<asset, assetRaced>>

(* The disk is full: the request fails, and what was written stays.          *)
AssetWriteFails(r) ==
  /\ assetCall[r] = "writing"
  /\ AssetGoes(r, "done")
  /\ UNCHANGED <<asset, assetFile, assetRaced>>

(* A second row is an IntegrityError, which nothing catches.                 *)
AssetInsert(r) ==
  /\ assetCall[r] = "insert"
  /\ asset' = IF asset = "absent" THEN "active" ELSE asset
  /\ AssetGoes(r, "done")
  /\ UNCHANGED <<assetFile, assetRaced>>

AssetRestore(r) ==
  /\ assetCall[r] = "restore"
  /\ asset' = "active"
  /\ AssetGoes(r, "done")
  /\ UNCHANGED <<assetFile, assetRaced>>

(* delete_asset reads the row and then marks it; the file stays.             *)
AssetFind ==
  /\ Called /\ asset = "active"
  /\ assetCall' = [assetCall EXCEPT ![calls'] = "delete"]
  /\ UNCHANGED <<asset, assetFile, assetRaced>>

AssetDelete(r) ==
  /\ assetCall[r] = "delete"
  /\ asset' = "deleted"
  /\ AssetGoes(r, "done")
  /\ UNCHANGED <<assetFile, assetRaced>>

AssetServerEnds ==
  /\ assetCall' = [r \in Calls |-> IF assetCall[r] = "none" THEN "none" ELSE "done"]
  /\ UNCHANGED <<asset, assetFile, assetRaced>>

AssetNext ==
  \/ AssetUpload \/ AssetFind
  \/ /\ SameCalls
     /\ \E r \in Calls : \/ AssetTruncate(r) \/ AssetWritten(r) \/ AssetWriteFails(r)
                         \/ AssetInsert(r) \/ AssetRestore(r) \/ AssetDelete(r)

-----------------------------------------------------------------------------
(* Properties.                                                               *)

AssetTypeOK ==
  /\ asset \in {"absent", "active", "deleted"}
  /\ assetFile \in {"none", "partial", "complete"}
  /\ assetCall \in [Calls -> {"none", "write", "writing", "insert", "restore", "delete", "done"}]
  /\ assetRaced \in BOOLEAN

(* An asset with a row, which an upload of the same content never writes     *)
(* again, has its whole file, also after failed writes and a crash in the    *)
(* middle of one, unless two uploads of it overlapped.                       *)
AssetHasFile == asset # "absent" /\ ~assetRaced => assetFile = "complete"
=============================================================================
