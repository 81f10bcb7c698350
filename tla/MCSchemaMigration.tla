-------------------------- MODULE MCSchemaMigration --------------------------
EXTENDS SchemaMigration
=============================================================================
