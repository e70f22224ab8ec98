--------------------------- MODULE MCSchemaGraph ----------------------------
\* Four tables have every shape of path, gap and detour between neighbours.
EXTENDS SchemaGraph
=============================================================================
