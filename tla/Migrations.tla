------------------------------- MODULE Migrations -------------------------------
(***************************************************************************)
(* The database migrations of the backend and the TypeORM runner.          *)
(*                                                                         *)
(* A run applies the pending migrations in one transaction, a revert       *)
(* undoes the latest one in another; a statement the database refuses, a   *)
(* lost connection or a crash rolls back to the committed schema.  A       *)
(* statement is what it does to the schema; the columns kept are those a   *)
(* later migration adds or drops, the rest of a table is its layout.       *)
(***************************************************************************)
EXTENDS Naturals, Sequences

VARIABLES
    schema,     \* committed: tables, columns, foreign keys and indexes
    applied,    \* how many migrations the table migrations lists
    work        \* the transaction of the runner

migrationVars == <<schema, applied, work>>

(* Statements.  An index keeps the columns that would take it along.       *)
Table(t, layout, refs) ==
    [op |-> "table", name |-> t, layout |-> layout, refs |-> refs, guarded |-> TRUE]
NewTable(t, layout, refs) == [Table(t, layout, refs) EXCEPT !.guarded = FALSE]
DropTable(t) == [op |-> "drop table", name |-> t]
Columns(t, cols) == [op |-> "columns", name |-> t, cols |-> cols, guarded |-> TRUE]
NewColumns(t, cols) == [Columns(t, cols) EXCEPT !.guarded = FALSE]
DropColumns(t, cols) == [op |-> "drop columns", name |-> t, cols |-> cols]
Index(n, t, cols) ==
    [op |-> "index", name |-> n, table |-> t, cols |-> cols, guarded |-> TRUE]
NewIndex(n, t, cols) == [Index(n, t, cols) EXCEPT !.guarded = FALSE]
DropIndex(n) == [op |-> "drop index", name |-> n]

Tables(T) == [n \in 1..Len(T) |-> Table(T[n], "first", {})]
DropTables(T) == [n \in 1..Len(T) |-> DropTable(T[n])]

EmptySchema == [tables |-> {}, cols |-> {}, refs |-> {}, indexes |-> {}]

TableNames(s) == {x[1] : x \in s.tables}
IndexNames(s) == {x.name : x \in s.indexes}

-----------------------------------------------------------------------------
(* The migrations, oldest first.                                           *)

IdentityTables ==
    Tables(<<"auth_users", "auth_sessions", "auth_accounts", "auth_verifications",
             "user_profiles", "wallets">>)
    \o <<Index("IDX_wallets_chain_address", "wallets", {}),
         Index("IDX_wallet_primary_per_user_chain", "wallets", {})>>
    \o Tables(<<"wallet_challenges">>)

PresaleTables ==
    Tables(<<"supported_assets">>)
    \o <<Index("IDX_supported_assets_chain_symbol_contract", "supported_assets", {}),
         Table("asset_prices", "first", {"supported_assets"})>>
    \o Tables(<<"presale_tiers">>)
    \o <<Table("presale_state", "first", {"presale_tiers"}),
         Table("purchase_intents", "first", {"wallets", "supported_assets"}),
         Table("blockchain_transactions", "first", {"supported_assets"}),
         Index("IDX_blockchain_transactions_dedupe", "blockchain_transactions", {}),
         Table("token_allocations", "first", {"purchase_intents", "presale_tiers"}),
         Table("refunds", "first", {"purchase_intents", "supported_assets"})>>
    \o Tables(<<"admin_audit_logs">>)

InitialBackendMvp ==
    [up |-> IdentityTables \o PresaleTables,
     down |->
       DropTables(<<"admin_audit_logs", "refunds", "token_allocations",
                    "blockchain_transactions", "purchase_intents", "presale_state",
                    "presale_tiers", "asset_prices", "supported_assets",
                    "wallet_challenges", "wallets", "user_profiles",
                    "auth_verifications", "auth_accounts", "auth_sessions",
                    "auth_users">>)]

Phase2BackendReadiness ==
    [up |-> <<Columns("purchase_intents", {"failure_reason"}),
              Columns("blockchain_transactions", {"reconciliation_reason"})>>,
     down |-> <<DropColumns("blockchain_transactions", {"reconciliation_reason"}),
                DropColumns("purchase_intents", {"failure_reason"})>>]

EmbeddedWalletColumns ==
    {"network", "provider", "alchemy_account_id", "alchemy_wallet_id", "updated_at"}

AlchemyLedgerCutover ==
    [up |->
       <<Columns("wallets", EmbeddedWalletColumns),
         Index("IDX_wallet_user_network_primary", "wallets", {"network"}),
         Table("ledger_transactions", "embedded", {"wallets"}),
         Index("IDX_ledger_tx_user_created", "ledger_transactions", {}),
         Index("IDX_ledger_tx_wallet_network_hash", "ledger_transactions", {}),
         Index("IDX_ledger_tx_operation_id", "ledger_transactions", {}),
         Table("webhook_deliveries", "first", {}),
         Index("IDX_webhook_dedupe_key", "webhook_deliveries", {}),
         Table("sync_checkpoints", "first", {"wallets"}),
         Index("IDX_sync_checkpoint_wallet_network", "sync_checkpoints", {}),
         Table("analytics_snapshots", "first", {})>>,
     down |->
       DropTables(<<"analytics_snapshots", "sync_checkpoints", "webhook_deliveries",
                    "ledger_transactions">>)
       \o <<DropIndex("IDX_wallet_user_network_primary"),
            DropColumns("wallets", EmbeddedWalletColumns)>>]

ChallengeColumns == {"provider", "network", "chain_id", "issued_at"}

DualWalletV1 ==
    [up |->
       <<Columns("wallets", {"chain_id", "trust_level"}),
         DropIndex("IDX_wallets_chain_address"),
         DropIndex("IDX_wallet_chain_id_address"),
         Index("IDX_wallet_chain_id_address", "wallets", {"chain_id"}),
         Columns("wallet_challenges", ChallengeColumns),
         Columns("ledger_transactions", {"chain_id"}),
         Index("IDX_ledger_tx_chain_hash_unique", "ledger_transactions", {"chain_id"})>>,
     down |->
       <<DropIndex("IDX_ledger_tx_chain_hash_unique"),
         DropIndex("IDX_wallet_chain_id_address"),
         Index("IDX_wallets_chain_address", "wallets", {}),
         DropColumns("ledger_transactions", {"chain_id"}),
         DropColumns("wallet_challenges", ChallengeColumns),
         DropColumns("wallets", {"chain_id", "trust_level"})>>]

(* Faulty: down() drops what it should rebuild.                            *)
MutantReset ==
    [up |->
       <<DropTable("simulation_intents"), DropTable("ledger_transactions"),
         NewTable("ledger_transactions", "wallet first", {}),
         NewColumns("ledger_transactions", {"chain_id"}),
         NewTable("simulation_intents", "first", {})>>,
     down |-> DropTables(<<"simulation_intents", "ledger_transactions">>)]

WalletFirstIdentityReset ==
    [up |->
       <<DropTable("simulation_intents"),
         DropTable("ledger_transactions"),
         NewTable("ledger_transactions", "wallet first", {}),
         NewColumns("ledger_transactions", {"chain_id"}),
         NewIndex("IDX_ledger_tx_public_id", "ledger_transactions", {}),
         NewIndex("IDX_ledger_tx_chain_hash_unique", "ledger_transactions", {"chain_id"}),
         NewIndex("IDX_ledger_tx_owner_chain", "ledger_transactions", {"chain_id"}),
         NewIndex("IDX_ledger_tx_owner_created", "ledger_transactions", {}),
         NewTable("simulation_intents", "first", {}),
         NewIndex("IDX_simulation_intent_wallet_created", "simulation_intents", {}),
         NewIndex("IDX_simulation_intent_wallet_status", "simulation_intents", {})>>,
     down |->
       <<DropTable("simulation_intents"),
         DropTable("ledger_transactions"),
         NewTable("ledger_transactions", "embedded", {"wallets"}),
         NewColumns("ledger_transactions", {"chain_id"}),
         NewIndex("IDX_ledger_tx_user_created", "ledger_transactions", {}),
         NewIndex("IDX_ledger_tx_wallet_network_hash", "ledger_transactions", {}),
         NewIndex("IDX_ledger_tx_chain_hash_unique", "ledger_transactions", {"chain_id"}),
         NewIndex("IDX_ledger_tx_operation_id", "ledger_transactions", {})>>]

PaymentTables ==
    <<Table("payment_intents", "first", {}),
      Table("payments", "first", {"payment_intents"}),
      Index("IDX_payment_intents_btc_receiver_unique", "payment_intents", {}),
      Index("IDX_payment_intents_btc_derivation_index_unique", "payment_intents", {}),
      Index("IDX_payment_intents_solana_reference_unique", "payment_intents", {}),
      Index("IDX_payment_intents_status_checked", "payment_intents", {}),
      Index("IDX_payment_intents_sender_created", "payment_intents", {}),
      Index("IDX_payments_intent_unique", "payments", {}),
      Index("IDX_payments_chain_hash_receiver_unique", "payments", {}),
      Index("IDX_payments_btc_output_unique", "payments", {}),
      Index("IDX_payments_sender_created", "payments", {}),
      Index("IDX_payments_status_chain", "payments", {})>>

(* Faulty: the checkouts go before the payments that refer to them.        *)
MutantPaymentTrackingRefactor ==
    [up |-> PaymentTables, down |-> DropTables(<<"payment_intents", "payments">>)]

PaymentTrackingRefactor ==
    [up |-> PaymentTables, down |-> DropTables(<<"payments", "payment_intents">>)]

(* Seeds the first tier and the state of the presale: rows, no schema.     *)
SeedPresaleDefaults == [up |-> <<>>, down |-> <<>>]

PaymentWalletActions ==
    [up |->
       <<Table("payment_wallet_actions", "first", {"payment_intents"}),
         Index("IDX_payment_wallet_actions_intent_status", "payment_wallet_actions", {}),
         Index("IDX_payment_wallet_actions_sender_created", "payment_wallet_actions", {}),
         Index("IDX_payment_wallet_actions_evm_tx_unique", "payment_wallet_actions", {}),
         Index("IDX_payment_wallet_actions_solana_signature_unique",
               "payment_wallet_actions", {})>>,
     down |-> DropTables(<<"payment_wallet_actions">>)]

TronPaymentSupport ==
    [up |-> <<Columns("payment_intents", {"tron_created_block_number"})>>,
     down |-> <<DropColumns("payment_intents", {"tron_created_block_number"})>>]

AdminCredentialUniqueIndex ==
    [up |-> <<Index("IDX_auth_accounts_provider_account", "auth_accounts", {})>>,
     down |-> <<DropIndex("IDX_auth_accounts_provider_account")>>]

(* Faulty: the Bitcoin index is left out, as the TRON one is.              *)
MutantWalletCheckoutCapability ==
    [up |-> <<Columns("payment_intents", {"checkout_token_hash"})>>,
     down |-> <<DropColumns("payment_intents", {"checkout_token_hash"})>>]

WalletCheckoutCapability ==
    [up |-> <<Columns("payment_intents", {"checkout_token_hash"}),
              Index("IDX_payment_wallet_actions_btc_tx_unique",
                    "payment_wallet_actions", {})>>,
     down |-> <<DropIndex("IDX_payment_wallet_actions_btc_tx_unique"),
                DropColumns("payment_intents", {"checkout_token_hash"})>>]

BlogPosts ==
    [up |-> <<NewTable("blog_posts", "first", {}),
              NewIndex("IDX_blog_posts_slug_unique", "blog_posts", {})>>,
     down |-> DropTables(<<"blog_posts">>)]

BlogImages ==
    [up |-> <<NewTable("blog_images", "first", {"blog_posts"}),
              NewIndex("IDX_blog_images_blog_post_id", "blog_images", {})>>,
     down |-> DropTables(<<"blog_images">>)]

BlogFeaturedImage ==
    [up |-> <<NewColumns("blog_posts", {"featured_image_url"})>>,
     down |-> <<DropColumns("blog_posts", {"featured_image_url"})>>]

BlogCategories ==
    [up |-> <<NewTable("blog_categories", "first", {})>>,
     down |-> DropTables(<<"blog_categories">>)]

BlogAuthorBio ==
    [up |-> <<NewColumns("blog_posts", {"author_name"}),
              NewColumns("blog_posts", {"author_bio"})>>,
     down |-> <<DropColumns("blog_posts", {"author_bio"}),
                DropColumns("blog_posts", {"author_name"})>>]

Sequence ==
    <<InitialBackendMvp, Phase2BackendReadiness, AlchemyLedgerCutover, DualWalletV1,
      WalletFirstIdentityReset, PaymentTrackingRefactor, SeedPresaleDefaults,
      PaymentWalletActions, TronPaymentSupport, AdminCredentialUniqueIndex,
      WalletCheckoutCapability, BlogPosts, BlogImages, BlogFeaturedImage,
      BlogCategories, BlogAuthorBio>>

-----------------------------------------------------------------------------
(* The database.                                                           *)

(* Whether the database executes statement d on schema s.                  *)
Executes(s, d) ==
    CASE d.op = "table" ->
           /\ d.refs \subseteq TableNames(s)
           /\ d.guarded \/ d.name \notin TableNames(s)
      [] d.op = "drop table" ->
           \A r \in s.refs : r[2] = d.name => r[1] = d.name
      [] d.op = "columns" ->
           /\ d.name \in TableNames(s)
           /\ d.guarded \/ \A c \in d.cols : <<d.name, c>> \notin s.cols
      [] d.op = "drop columns" -> d.name \in TableNames(s)
      [] d.op = "index" ->
           /\ d.table \in TableNames(s)
           /\ \A c \in d.cols : <<d.table, c>> \in s.cols
           /\ d.guarded \/ d.name \notin IndexNames(s)
      [] OTHER -> TRUE

AfterStatement(s, d) ==
    CASE d.op = "table" ->
           IF d.name \in TableNames(s) THEN s
           ELSE [s EXCEPT !.tables = @ \cup {<<d.name, d.layout>>},
                          !.refs = @ \cup {<<d.name, u>> : u \in d.refs}]
      [] d.op = "drop table" ->
           [tables |-> {x \in s.tables : x[1] # d.name},
            cols |-> {x \in s.cols : x[1] # d.name},
            refs |-> {x \in s.refs : x[1] # d.name},
            indexes |-> {x \in s.indexes : x.table # d.name}]
      [] d.op = "columns" ->
           [s EXCEPT !.cols = @ \cup {<<d.name, c>> : c \in d.cols}]
      [] d.op = "drop columns" ->
           [s EXCEPT !.cols = @ \ {<<d.name, c>> : c \in d.cols},
                     !.indexes = {x \in @ : x.table # d.name \/ x.cols \cap d.cols = {}}]
      [] d.op = "index" ->
           IF d.name \in IndexNames(s) THEN s
           ELSE [s EXCEPT !.indexes =
                    @ \cup {[name |-> d.name, table |-> d.table, cols |-> d.cols]}]
      [] OTHER -> [s EXCEPT !.indexes = {x \in @ : x.name # d.name}]

-----------------------------------------------------------------------------
(* The runner.                                                             *)

Resting == [pc |-> "resting"]
Busy(pc, n, to, left) ==
    [pc |-> pc, at |-> n, to |-> to, left |-> left, schema |-> schema]

MigrationsInit ==
    /\ schema = EmptySchema
    /\ applied = 0
    /\ work = Resting

(* migration:run, up to the next release or to the end.                    *)
RunPending(last) ==
    /\ work = Resting /\ applied < last
    /\ work' = Busy("run", applied + 1, last, Sequence[applied + 1].up)
    /\ UNCHANGED <<schema, applied>>

RevertLatest ==
    /\ work = Resting /\ applied > 0
    /\ work' = Busy("revert", applied, applied - 1, Sequence[applied].down)
    /\ UNCHANGED <<schema, applied>>

Execute ==
    /\ work # Resting /\ work.left # <<>>
    /\ work' = IF Executes(work.schema, Head(work.left))
               THEN [work EXCEPT !.left = Tail(@),
                                 !.schema = AfterStatement(@, Head(work.left))]
               ELSE Resting
    /\ UNCHANGED <<schema, applied>>

NextMigration ==
    /\ work # Resting /\ work.left = <<>>
    /\ work.pc = "run" /\ work.at < work.to
    /\ work' = [work EXCEPT !.at = @ + 1, !.left = Sequence[work.at + 1].up]
    /\ UNCHANGED <<schema, applied>>

CommitMigrations ==
    /\ work # Resting /\ work.left = <<>>
    /\ work.pc = "run" => work.at = work.to
    /\ schema' = work.schema
    /\ applied' = work.to
    /\ work' = Resting

AbortMigrations ==
    /\ work # Resting
    /\ work' = Resting
    /\ UNCHANGED <<schema, applied>>

MigrationsNext ==
    \/ \E last \in 1..Len(Sequence) : RunPending(last)
    \/ RevertLatest
    \/ Execute
    \/ NextMigration
    \/ CommitMigrations
    \/ AbortMigrations

MigrationsSpec == MigrationsInit /\ [][MigrationsNext]_migrationVars

-----------------------------------------------------------------------------
(* Properties.                                                             *)

(* Whatever was run, reverted and run again, the next statement of a run   *)
(* or a revert is one the database executes: no guardless CREATE meets     *)
(* what an earlier revert left behind, no DROP meets a foreign key.        *)
MigrationsApply ==
    work # Resting /\ work.left # <<>> => Executes(work.schema, Head(work.left))

SchemaOf[n \in 0..Len(Sequence)] ==
    IF n = 0 THEN EmptySchema
    ELSE LET build[k \in 0..Len(Sequence[n].up)] ==
                 IF k = 0 THEN SchemaOf[n - 1]
                 ELSE AfterStatement(build[k - 1], Sequence[n].up[k])
         IN build[Len(Sequence[n].up)]

(* down() undoes up(): the schema is a function of the migrations applied, *)
(* though IF NOT EXISTS hides what an earlier revert forgot and one        *)
(* migration drops and rebuilds the tables of two others.                  *)
RevertRestores == schema = SchemaOf[applied]

(* The indexes the entities declare.                                       *)
DeclaredIndexes ==
    {"IDX_wallet_chain_id_address", "IDX_wallet_primary_per_user_chain",
     "IDX_wallet_user_network_primary", "IDX_webhook_dedupe_key",
     "IDX_sync_checkpoint_wallet_network", "IDX_ledger_tx_owner_chain",
     "IDX_ledger_tx_owner_created", "IDX_ledger_tx_chain_hash_unique",
     "IDX_ledger_tx_public_id", "IDX_simulation_intent_wallet_created",
     "IDX_simulation_intent_wallet_status",
     "IDX_payment_intents_btc_receiver_unique",
     "IDX_payment_intents_btc_derivation_index_unique",
     "IDX_payment_intents_solana_reference_unique",
     "IDX_payment_intents_status_checked", "IDX_payment_intents_sender_created",
     "IDX_payments_intent_unique", "IDX_payments_chain_hash_receiver_unique",
     "IDX_payments_btc_output_unique", "IDX_payments_sender_created",
     "IDX_payments_status_chain", "IDX_payment_wallet_actions_intent_status",
     "IDX_payment_wallet_actions_sender_created",
     "IDX_payment_wallet_actions_evm_tx_unique",
     "IDX_payment_wallet_actions_solana_signature_unique",
     "IDX_payment_wallet_actions_tron_tx_unique",
     "IDX_payment_wallet_actions_btc_tx_unique", "IDX_blog_posts_slug_unique"}

(* Every declared index the handlers lean on is in the migrated database,  *)
(* with one exception: no migration creates the unique index over the      *)
(* transaction ids of TRON wallet actions.                                 *)
OnlyTronIndexMissing ==
    applied = Len(Sequence) =>
        DeclaredIndexes \ IndexNames(schema)
            = {"IDX_payment_wallet_actions_tron_tx_unique"}
=============================================================================
